---- MODULE Spec2Model ----
(***************************************************************************)
(* A model of xdp-check: the result model and the Report aggregator        *)
(* (output.rs), the probes (kernel.rs, capabilities.rs, system.rs, nic.rs, *)
(* runtime.rs) and the orchestrator (main.rs).                             *)
(*                                                                         *)
(* A CheckResult is a record                                               *)
(*   [name, subject, status, message, args, data, details]                 *)
(* where the Rust name "<iface>: Driver" is kept as subject = iface and    *)
(* name = "Driver" (subject = "" for a result that names no interface),    *)
(* message is the format template of the Rust message, args the strings    *)
(* and data the numbers interpolated into the message and the details,     *)
(* and details the template of the details string or "None" for            *)
(* Option::None.                                                           *)
(***************************************************************************)
EXTENDS Integers, Sequences, FiniteSets, TLC

\* sockets is the set of descriptors of the sockets the process holds open;
\* frame holds the locals of ring_parameters_ethtool while it runs; requests is
\* the sequence of the requests the process has issued on the control channel;
\* queries is the sequence of the per-interface queries (driver, XDP support,
\* queues, ring parameters) the process has made
VARIABLES report, calls, printed, json_out, pc, cli, host, ret, exit_code, sockets, frame,
          requests, queries

vars == <<report, calls, printed, json_out, pc, cli, host, ret, exit_code, sockets, frame,
          requests, queries>>

(***************************************************************************)
(* Bounds of the model.                                                    *)
(***************************************************************************)
\* add_section calls made on one Report by the aggregator harness
MaxCalls == 3
\* results passed in over all the add_section calls of the aggregator harness
MaxResults == 2
\* characters of a kernel release string drawn for the version check
MaxReleaseLen == 4
\* the grid of versions a classified release is compared with
MaxMajor == 8
MaxMinor == 20
\* facts in which the host of a run differs from the baseline host
MaxDeviations == 1

(***************************************************************************)
(* output.rs: the result model.                                            *)
(***************************************************************************)
CheckStatus == {"Pass", "Fail", "Warning", "Info", "Error"}

is_failure_only_fail(status) == status = "Fail"

is_failure(status) == status \in {"Fail", "Error"}

CheckResult(name, subject, status, message, args, data, details) ==
    [name |-> name, subject |-> subject, status |-> status,
     message |-> message, args |-> args, data |-> data, details |-> details]

None == "None"

(***************************************************************************)
(* output.rs: the Report.  sections is the HashMap (a function whose       *)
(* DOMAIN is the set of keys), order the Vec of names.                     *)
(***************************************************************************)
EmptyMap == [n \in {} |-> << >>]

Report_new == [sections |-> EmptyMap, order |-> << >>]

\* HashMap::insert: the value under an existing key is replaced
insert(map, key, value) ==
    [n \in (DOMAIN map) \cup {key} |-> IF n = key THEN value ELSE map[n]]

\* a buggy insert that keeps the value an existing key already holds
insert_keep_first(map, key, value) ==
    [n \in (DOMAIN map) \cup {key} |->
        IF n \in DOMAIN map THEN map[n] ELSE value]

add_section_keep_first(r, name, results) ==
    [sections |-> insert_keep_first(r.sections, name, results),
     order |-> Append(r.order, name)]

\* an add_section that records a name only the first time it is used
add_section_order_once(r, name, results) ==
    [sections |-> insert(r.sections, name, results),
     order |-> IF name \in DOMAIN r.sections THEN r.order ELSE Append(r.order, name)]

add_section(r, name, results) ==
    [sections |-> insert(r.sections, name, results),
     order |-> Append(r.order, name)]

\* sections.values().flatten(): the HashMap is iterated in an arbitrary order
RECURSIVE FlattenValues(_, _)
FlattenValues(map, keys) ==
    IF keys = {} THEN << >>
    ELSE LET k == CHOOSE k \in keys : TRUE
         IN  map[k] \o FlattenValues(map, keys \ {k})

values_flatten(r) == FlattenValues(r.sections, DOMAIN r.sections)

is_compatible(r) ==
    LET all == values_flatten(r)
    IN  ~ \E i \in 1..Len(all) : is_failure(all[i].status)

CheckCounts_default == [pass |-> 0, fail |-> 0, warning |-> 0, info |-> 0, error |-> 0]

count_one(counts, status) ==
    CASE status = "Pass"    -> [counts EXCEPT !.pass = @ + 1]
      [] status = "Fail"    -> [counts EXCEPT !.fail = @ + 1]
      [] status = "Warning" -> [counts EXCEPT !.warning = @ + 1]
      [] status = "Info"    -> [counts EXCEPT !.info = @ + 1]
      [] status = "Error"   -> [counts EXCEPT !.error = @ + 1]

RECURSIVE CountFrom(_, _, _)
CountFrom(all, i, counts) ==
    IF i > Len(all) THEN counts
    ELSE CountFrom(all, i + 1, count_one(counts, all[i].status))

RECURSIVE CountErrorsAsFail(_, _, _)
CountErrorsAsFail(all, i, counts) ==
    IF i > Len(all) THEN counts
    ELSE CountErrorsAsFail(all, i + 1,
            count_one(counts, IF all[i].status = "Error" THEN "Fail" ELSE all[i].status))

check_counts_errors_as_fail(r) == CountErrorsAsFail(values_flatten(r), 1, CheckCounts_default)

check_counts(r) == CountFrom(values_flatten(r), 1, CheckCounts_default)

\* print_json: the ReportSummary that is serialised
ReportSummary(r) ==
    [compatible |-> is_compatible(r),
     sections |-> r.sections,
     check_counts |-> check_counts(r)]

\* One line of the human rendering.
Line(kind, section, result, text) ==
    [kind |-> kind, section |-> section, result |-> result, text |-> text]

NoResult == CheckResult("", "", "Info", "", << >>, << >>, None)

shows_details(result, verbose) ==
    /\ result.details # None
    /\ (verbose \/ result.status \in {"Fail", "Warning", "Error"})

result_lines(section, result, verbose) ==
    <<Line("result", section, result, result.message)>>
    \o (IF shows_details(result, verbose)
        THEN <<Line("details", section, result, result.details)>>
        ELSE << >>)

RECURSIVE results_lines(_, _, _, _)
results_lines(section, results, i, verbose) ==
    IF i > Len(results) THEN << >>
    ELSE result_lines(section, results[i], verbose)
         \o results_lines(section, results, i + 1, verbose)

section_lines(r, section, verbose) ==
    IF section \in DOMAIN r.sections
    THEN <<Line("section", section, NoResult, section)>>
         \o results_lines(section, r.sections[section], 1, verbose)
    ELSE << >>

RECURSIVE sections_lines(_, _, _)
sections_lines(r, i, verbose) ==
    IF i > Len(r.order) THEN << >>
    ELSE section_lines(r, r.order[i], verbose) \o sections_lines(r, i + 1, verbose)

\* a buggy rendering that leaves out a section holding no result
section_lines_skip_empty(r, section, verbose) ==
    IF section \in DOMAIN r.sections /\ r.sections[section] # << >>
    THEN <<Line("section", section, NoResult, section)>>
         \o results_lines(section, r.sections[section], 1, verbose)
    ELSE << >>

RECURSIVE sections_lines_skip_empty(_, _, _)
sections_lines_skip_empty(r, i, verbose) ==
    IF i > Len(r.order) THEN << >>
    ELSE section_lines_skip_empty(r, r.order[i], verbose)
         \o sections_lines_skip_empty(r, i + 1, verbose)

\* has_failures / has_warnings as print_human accumulates them over the visits
has_failures(lines) ==
    \E i \in 1..Len(lines) : lines[i].kind = "result" /\ is_failure(lines[i].result.status)

has_warnings(lines) ==
    \E i \in 1..Len(lines) : lines[i].kind = "result" /\ lines[i].result.status = "Warning"

\* a summary that looks at the warnings before it looks at the failures
summary_lines_warnings_first(lines, verbose) ==
    LET banner == IF has_warnings(lines) THEN "PASSED with warnings"
                  ELSE IF has_failures(lines) THEN "FAILED"
                  ELSE "PASSED"
    IN  <<Line("banner", "", NoResult, banner)>>
        \o (IF ~verbose /\ (has_failures(lines) \/ has_warnings(lines))
            THEN <<Line("tip", "", NoResult, "Run with --verbose")>>
            ELSE << >>)

summary_lines(lines, verbose) ==
    LET banner == IF has_failures(lines) THEN "FAILED"
                  ELSE IF has_warnings(lines) THEN "PASSED with warnings"
                  ELSE "PASSED"
    IN  <<Line("banner", "", NoResult, banner)>>
        \o (IF ~verbose /\ (has_failures(lines) \/ has_warnings(lines))
            THEN <<Line("tip", "", NoResult, "Run with --verbose")>>
            ELSE << >>)

print_human_skip_empty(r, verbose) ==
    LET lines == sections_lines_skip_empty(r, 1, verbose)
    IN  lines \o summary_lines(lines, verbose)

print_human(r, verbose) ==
    LET lines == sections_lines(r, 1, verbose)
    IN  lines \o summary_lines(lines, verbose)

(***************************************************************************)
(* anyhow::Result: a value or a fatal error.                               *)
(***************************************************************************)
Ok(value) == [ok |-> TRUE, value |-> value]

Err(why) == [ok |-> FALSE, value |-> << >>, error |-> why]

(***************************************************************************)
(* Strings that the code takes apart are sequences of one-character        *)
(* strings.                                                                *)
(***************************************************************************)
Digits == {"0", "1", "2", "3", "4", "5", "6", "7", "8", "9"}

DigitValue(c) ==
    CASE c = "0" -> 0 [] c = "1" -> 1 [] c = "2" -> 2 [] c = "3" -> 3 [] c = "4" -> 4
      [] c = "5" -> 5 [] c = "6" -> 6 [] c = "7" -> 7 [] c = "8" -> 8 [] c = "9" -> 9

\* str::split(&['.', '-'][..]): the pieces between separators, empty ones kept
RECURSIVE SplitFrom(_, _, _, _)
SplitFrom(s, seps, i, piece) ==
    IF i > Len(s) THEN <<piece>>
    ELSE IF s[i] \in seps THEN <<piece>> \o SplitFrom(s, seps, i + 1, << >>)
    ELSE SplitFrom(s, seps, i + 1, Append(piece, s[i]))

split(s, seps) == SplitFrom(s, seps, 1, << >>)

RECURSIVE DecimalValue(_, _, _)
DecimalValue(s, i, acc) ==
    IF i > Len(s) THEN acc ELSE DecimalValue(s, i + 1, acc * 10 + DigitValue(s[i]))

\* str::parse::<u32>(): an optional '+' and then one or more ASCII digits.  (A
\* value above u32::MAX is an error too; no string of the model is that long.)
parse_u32(s) ==
    LET digits == IF s # << >> /\ s[1] = "+" THEN SubSeq(s, 2, Len(s)) ELSE s
    IN  IF digits # << >> /\ \A i \in 1..Len(digits) : digits[i] \in Digits
        THEN Ok(DecimalValue(digits, 1, 0))
        ELSE Err("ParseIntError")

unwrap_or(result, default) == IF result.ok THEN result.value ELSE default

(***************************************************************************)
(* The host the probes read.  A file is [state, content] with state        *)
(* "missing" (the path does not exist), "unreadable" (it exists and the    *)
(* read fails) or "ok".  An external command is "spawn_error" (the binary  *)
(* cannot be run), "exit_nonzero" or "ok".                                 *)
(***************************************************************************)
File(state, content) == [state |-> state, content |-> content]

exists(file) == file.state # "missing"

\* a line of a kernel configuration: CONFIG_X=y, CONFIG_X=m, or the comment
\* "# CONFIG_X is not set" (value "n")
ConfigLine(option, value) == [option |-> option, value |-> value]

REQUIRED_OPTIONS == <<"CONFIG_XDP_SOCKETS", "CONFIG_BPF", "CONFIG_BPF_SYSCALL", "CONFIG_NET">>

OPTIONAL_OPTIONS == <<"CONFIG_DEBUG_INFO_BTF", "CONFIG_NETLINK">>

Range(seq) == {seq[i] : i \in 1..Len(seq)}

ConfigWith(value, options) == {ConfigLine(o, value) : o \in options}

ConfigAllBuiltIn == ConfigWith("y", Range(REQUIRED_OPTIONS) \cup Range(OPTIONAL_OPTIONS))

ConfigContents ==
    { ConfigAllBuiltIn,
      ConfigWith("m", Range(REQUIRED_OPTIONS)) \cup ConfigWith("n", Range(OPTIONAL_OPTIONS)),
      ConfigWith("y", Range(REQUIRED_OPTIONS) \ {"CONFIG_XDP_SOCKETS"})
         \cup ConfigWith("n", {"CONFIG_XDP_SOCKETS"}),
      {} }

HostKernelBaseline ==
    [ uname_ok |-> TRUE,
      release |-> <<"6", ".", "1", "0">>,
      boot_config_release |-> File("ok", ConfigAllBuiltIn),
      proc_config_gz |-> File("missing", {}),
      zcat |-> "ok",
      boot_config |-> File("missing", {}),
      btf_vmlinux |-> File("ok", {}),
      proc_modules |-> File("ok", {"xsk_diag"}) ]

(***************************************************************************)
(* kernel.rs                                                               *)
(***************************************************************************)
MIN_KERNEL_VERSION == <<4, 18>>

RECOMMENDED_KERNEL_VERSION == <<6, 10>>

\* a classification that forgets the releases whose major is above the
\* recommended one
kernel_version_status_same_major(major, minor) ==
    IF \/ major > MIN_KERNEL_VERSION[1]
       \/ (major = MIN_KERNEL_VERSION[1] /\ minor >= MIN_KERNEL_VERSION[2])
    THEN IF major = RECOMMENDED_KERNEL_VERSION[1] /\ minor >= RECOMMENDED_KERNEL_VERSION[2]
         THEN "Pass"
         ELSE "Warning"
    ELSE "Fail"

\* a classification that takes the minimum itself for too old
kernel_version_status_strict_minimum(major, minor) ==
    IF \/ major > MIN_KERNEL_VERSION[1]
       \/ (major = MIN_KERNEL_VERSION[1] /\ minor > MIN_KERNEL_VERSION[2])
    THEN IF \/ major > RECOMMENDED_KERNEL_VERSION[1]
            \/ (major = RECOMMENDED_KERNEL_VERSION[1] /\ minor >= RECOMMENDED_KERNEL_VERSION[2])
         THEN "Pass"
         ELSE "Warning"
    ELSE "Fail"

\* the status expression of check_kernel_version
kernel_version_status(major, minor) ==
    IF \/ major > MIN_KERNEL_VERSION[1]
       \/ (major = MIN_KERNEL_VERSION[1] /\ minor >= MIN_KERNEL_VERSION[2])
    THEN IF \/ major > RECOMMENDED_KERNEL_VERSION[1]
            \/ (major = RECOMMENDED_KERNEL_VERSION[1] /\ minor >= RECOMMENDED_KERNEL_VERSION[2])
         THEN "Pass"
         ELSE "Warning"
    ELSE "Fail"

check_kernel_version(h) ==
    IF ~h.uname_ok THEN Err("uname")
    ELSE LET parts == split(h.release, {".", "-"})
         IN  IF Len(parts) < 2
             THEN Ok(CheckResult("Kernel Version", "", "Error",
                                 "Unable to parse kernel version: {}", << >>, << >>, None))
             ELSE LET major == unwrap_or(parse_u32(parts[1]), 0)
                      minor == unwrap_or(parse_u32(parts[2]), 0)
                      status == kernel_version_status(major, minor)
                      details ==
                         CASE status = "Pass" ->
                                "Kernel {}.{} meets recommended version {}.{} for stable AF_XDP support"
                           [] status = "Warning" ->
                                "Kernel {}.{} supports AF_XDP but {}.{}+ is recommended for better stability"
                           [] status = "Fail" ->
                                "Kernel {}.{} is too old. Minimum required: {}.{}"
                  IN  Ok(CheckResult("Kernel Version", "", status,
                                     "Kernel version: {} ({}.{})", << >>, <<major, minor>>, details))

\* quick_kernel_check: the version only
quick_kernel_check(h) ==
    LET version == check_kernel_version(h)
    IN  IF ~version.ok THEN version ELSE Ok(<<version.value>>)

\* the candidate configuration sources, in the order they are tried
config_paths(h) ==
    << [path |-> "/boot/config-{release}", file |-> h.boot_config_release, gz |-> FALSE],
       [path |-> "/proc/config.gz", file |-> h.proc_config_gz, gz |-> TRUE],
       [path |-> "/boot/config", file |-> h.boot_config, gz |-> FALSE] >>

NoConfig == [found |-> FALSE, content |-> {}, path |-> ""]

\* the loop over config_paths: the first candidate that yields content
RECURSIVE find_config(_, _, _)
find_config(h, paths, i) ==
    IF i > Len(paths) THEN Ok(NoConfig)
    ELSE LET p == paths[i]
             found == Ok([found |-> TRUE, content |-> p.file.content, path |-> p.path])
         IN  IF ~exists(p.file) THEN find_config(h, paths, i + 1)
             ELSE IF p.gz
             THEN IF h.zcat = "spawn_error" THEN Err("Failed to decompress kernel config")
                  ELSE IF h.zcat = "ok" /\ p.file.state = "ok" THEN found
                  ELSE find_config(h, paths, i + 1)
             ELSE IF p.file.state = "ok" THEN found
             ELSE find_config(h, paths, i + 1)

\* config.contains("X=y") || config.contains("X=m")
option_enabled(config, option) ==
    ConfigLine(option, "y") \in config \/ ConfigLine(option, "m") \in config

required_option_result(config, source, option) ==
    IF option_enabled(config, option)
    THEN CheckResult(option, "", "Pass", "description", <<source>>, << >>, "Enabled in {}")
    ELSE CheckResult(option, "", "Fail", "description", <<source>>, << >>,
                     "Not found or disabled in {}. Required for XDP.")

optional_option_result(config, source, option) ==
    IF option_enabled(config, option)
    THEN CheckResult(option, "", "Pass", "description", <<source>>, << >>, "Enabled in {}")
    ELSE CheckResult(option, "", "Warning", "description", <<source>>, << >>,
                     "Not enabled in {}. Recommended for better XDP support.")

check_kernel_config(h) ==
    IF ~h.uname_ok THEN Err("uname")
    ELSE LET config == find_config(h, config_paths(h), 1)
         IN  IF ~config.ok THEN config
             ELSE IF ~config.value.found
             THEN Ok(<<CheckResult("Kernel Config", "", "Warning",
                                   "Unable to find kernel configuration file", << >>, << >>,
                                   "Cannot verify XDP-related kernel options. They might still be enabled.")>>)
             ELSE Ok([i \in 1..Len(REQUIRED_OPTIONS) |->
                         required_option_result(config.value.content, config.value.path,
                                                REQUIRED_OPTIONS[i])]
                     \o [i \in 1..Len(OPTIONAL_OPTIONS) |->
                         optional_option_result(config.value.content, config.value.path,
                                                OPTIONAL_OPTIONS[i])])

check_btf_support(h) ==
    IF exists(h.btf_vmlinux)
    THEN CheckResult("BTF Support", "", "Pass", "BTF type information available",
                     << >>, << >>, "Found at {}")
    ELSE CheckResult("BTF Support", "", "Warning", "BTF type information not found",
                     << >>, << >>,
                     "BTF improves eBPF program compatibility but is not strictly required")

\* str::contains on /proc/modules: some module name has the pattern as a
\* substring ("xsk_diag" holds "xsk" and "xsk_diag"; no other name of the model
\* holds either)
modules_contain(modules, pattern) ==
    /\ pattern \in {"xsk", "xsk_diag"}
    /\ "xsk_diag" \in modules

check_kernel_modules(h) ==
    IF h.proc_modules.state # "ok" THEN Err("Failed to read /proc/modules")
    ELSE LET xsk_loaded == modules_contain(h.proc_modules.content, "xsk")
         IN  Ok(<<IF xsk_loaded
                  THEN CheckResult("XSK Module", "", "Pass", "XSK diagnostic module loaded",
                                   << >>, << >>, "Module is loaded for AF_XDP socket diagnostics")
                  ELSE CheckResult("XSK Module", "", "Info", "XSK diagnostic module not loaded",
                                   << >>, << >>,
                                   "Optional module for AF_XDP diagnostics. Core functionality still works.")>>)

check_kernel_compatibility(h) ==
    LET version == check_kernel_version(h)
        config == check_kernel_config(h)
        modules == check_kernel_modules(h)
    IN  IF ~version.ok THEN version
        ELSE IF ~config.ok THEN config
        ELSE IF ~modules.ok THEN modules
        ELSE Ok(<<version.value>> \o config.value \o <<check_btf_support(h)>> \o modules.value)

(***************************************************************************)
(* capabilities.rs                                                         *)
(***************************************************************************)
HostCapabilitiesBaseline ==
    [ is_root |-> TRUE,
      caps_effective |-> File("ok", {"CAP_NET_RAW", "CAP_NET_ADMIN", "CAP_BPF",
                                     "CAP_PERFMON", "CAP_SYS_ADMIN"}),
      caps_permitted |-> File("ok", {"CAP_NET_RAW", "CAP_NET_ADMIN", "CAP_BPF",
                                     "CAP_PERFMON", "CAP_SYS_ADMIN"}) ]

user_privileges_result(h) ==
    IF h.is_root
    THEN CheckResult("user Privileges", "", "Pass", "running as root", << >>, << >>, None)
    ELSE CheckResult("user Privileges", "", "Info", "running as user (UID: {})", << >>, << >>,
                     "non-root users need specific capabilities for XDP")

\* a capability model that switches at kernel 5.0 instead of 5.8
required_caps_since_5_0(release) ==
    LET parts == split(release, {".", "-"})
        major == IF Len(parts) > 0 THEN unwrap_or(parse_u32(parts[1]), 0) ELSE 0
    IN  <<"CAP_NET_RAW", "CAP_NET_ADMIN">>
        \o (IF major >= 5 THEN <<"CAP_BPF", "CAP_PERFMON">> ELSE <<"CAP_SYS_ADMIN">>)

\* the capabilities the kernel release asks for
required_caps(release) ==
    LET parts == split(release, {".", "-"})
        major == IF Len(parts) > 0 THEN unwrap_or(parse_u32(parts[1]), 0) ELSE 0
        minor == IF Len(parts) > 1 THEN unwrap_or(parse_u32(parts[2]), 0) ELSE 0
        kernel_5_8_plus == major > 5 \/ (major = 5 /\ minor >= 8)
    IN  <<"CAP_NET_RAW", "CAP_NET_ADMIN">>
        \o (IF kernel_5_8_plus THEN <<"CAP_BPF", "CAP_PERFMON">> ELSE <<"CAP_SYS_ADMIN">>)

capability_result(h, cap) ==
    LET status == IF cap \in h.caps_effective.content THEN "Pass"
                  ELSE IF h.is_root THEN "Warning"
                  ELSE "Fail"
        details == CASE status = "Pass" -> "Capability granted"
                     [] status = "Fail" -> "Missing capability. Grant it with: sudo setcap cap_{}=ep <binary>"
                     [] status = "Warning" -> "Root user but capability not detected (unusual)"
    IN  CheckResult(cap, "", status, "description", << >>, << >>, details)

check_capabilities(h) ==
    IF ~h.uname_ok THEN Err("uname")
    ELSE IF h.caps_effective.state # "ok" THEN Err("caps::read Effective")
    ELSE IF h.caps_permitted.state # "ok" THEN Err("caps::read Permitted")
    ELSE LET required == required_caps(h.release)
             available_but_not_effective ==
                SelectSeq(required, LAMBDA cap : /\ cap \in h.caps_permitted.content
                                                 /\ cap \notin h.caps_effective.content)
         IN  Ok(<<user_privileges_result(h)>>
                \o [i \in 1..Len(required) |-> capability_result(h, required[i])]
                \o (IF available_but_not_effective # << >>
                    THEN <<CheckResult("Available Capabilities", "", "Info",
                                       "Some capabilities are permitted but not effective",
                                       available_but_not_effective, << >>,
                                       "Could activate: {}. Consider using ambient capabilities.")>>
                    ELSE << >>))

quick_capability_check(h) ==
    IF h.caps_effective.state # "ok" THEN Err("caps::read Effective")
    ELSE LET effective == h.caps_effective.content
             has_net_admin == "CAP_NET_ADMIN" \in effective
             has_net_raw == "CAP_NET_RAW" \in effective
             has_bpf_or_admin == "CAP_BPF" \in effective \/ "CAP_SYS_ADMIN" \in effective
             status == IF h.is_root \/ (has_net_admin /\ has_net_raw /\ has_bpf_or_admin)
                       THEN "Pass"
                       ELSE IF has_net_admin \/ has_net_raw THEN "Warning"
                       ELSE "Fail"
             details == CASE status = "Pass" -> "All required capabilities present"
                          [] status = "Warning" -> "Some capabilities missing. XDP may work with limitations."
                          [] status = "Fail" -> "Missing critical capabilities. XDP will not work."
         IN  Ok(<<CheckResult("XDP Capabilities", "", status,
                              IF h.is_root THEN "Running as root (all capabilities)"
                              ELSE "Checking essential capabilities",
                              << >>, << >>, details)>>)

(***************************************************************************)
(* system.rs.  A file whose content is parsed as a number holds a sequence *)
(* of characters; rlim_t values are kept below 2^31, RLIM_INFINITY being   *)
(* the largest value of the type.                                          *)
(***************************************************************************)
Whitespace == {" ", "\n", "\t"}

\* str::trim
RECURSIVE trim_start(_)
trim_start(s) == IF s # << >> /\ s[1] \in Whitespace THEN trim_start(Tail(s)) ELSE s

RECURSIVE trim_end(_)
trim_end(s) ==
    IF s # << >> /\ s[Len(s)] \in Whitespace THEN trim_end(SubSeq(s, 1, Len(s) - 1)) ELSE s

trim(s) == trim_end(trim_start(s))

RLIM_INFINITY == 2147483647

MiB == 1048576

HostSystemBaseline ==
    [ hugepages_2mb |-> File("ok", <<"0", "\n">>),
      hugepages_1gb |-> File("missing", << >>),
      rlimit_ok |-> TRUE,
      rlimit_memlock |-> <<RLIM_INFINITY, RLIM_INFINITY>>,
      cpus |-> 2,
      scaling_governor |-> File("ok", "performance"),
      isolated |-> File("ok", ""),
      pgrep_irqbalance |-> "exit_nonzero",
      proc_loadavg |-> File("ok", <<50, 40, 30>>) ]

\* the free_hugepages counter of one page size, 0 when it cannot be had
free_hugepages(file) ==
    IF file.state = "ok" THEN unwrap_or(parse_u32(trim(file.content)), 0) ELSE 0

check_huge_pages(h) ==
    LET huge_2mb == free_hugepages(h.hugepages_2mb)
        huge_1gb == free_hugepages(h.hugepages_1gb)
        status == IF huge_2mb > 0 \/ huge_1gb > 0 THEN "Pass" ELSE "Info"
        message == IF huge_1gb > 0 /\ huge_2mb > 0 THEN "2MB: {}, 1GB: {} pages available"
                   ELSE IF huge_2mb > 0 THEN "{} x 2MB huge pages available"
                   ELSE IF huge_1gb > 0 THEN "{} x 1GB huge pages available"
                   ELSE "No huge pages available"
    IN  Ok(CheckResult("Huge Pages", "", status, message, << >>, <<huge_2mb, huge_1gb>>,
                       IF status = "Pass"
                       THEN "Huge pages improve XDP performance by reducing TLB misses"
                       ELSE "XDP will use regular 4KB pages. Consider enabling huge pages for better performance."))

\* thresholds that the limit has to exceed
memlock_status_above_threshold(cur) ==
    LET cur_limit_mb == cur \div MiB
    IN  IF cur = RLIM_INFINITY \/ cur_limit_mb > 512 THEN "Pass"
        ELSE IF cur_limit_mb > 64 THEN "Warning"
        ELSE "Fail"

memlock_status(cur) ==
    LET cur_limit_mb == cur \div MiB
    IN  IF cur = RLIM_INFINITY \/ cur_limit_mb >= 512 THEN "Pass"
        ELSE IF cur_limit_mb >= 64 THEN "Warning"
        ELSE "Fail"

check_memlock_limit(h) ==
    IF ~h.rlimit_ok THEN Err("getrlimit")
    ELSE LET cur == h.rlimit_memlock[1]
             max == h.rlimit_memlock[2]
             status == memlock_status(cur)
             details == CASE status = "Pass" -> "Sufficient memory lock limit for XDP"
                          [] status = "Warning" -> "Memory lock limit may be insufficient for large XDP deployments. Consider increasing with 'ulimit -l'."
                          [] status = "Fail" -> "Memory lock limit too low for XDP. Increase with 'ulimit -l unlimited' or edit /etc/security/limits.conf."
         IN  Ok(CheckResult("Memory Lock Limit", "", status,
                            IF cur = RLIM_INFINITY THEN "Unlimited memory lock"
                            ELSE "Current: {} MB, Max: {} MB",
                            << >>, <<cur \div MiB, max \div MiB>>, details))

governor_result(governor) ==
    CASE governor = "performance" ->
           CheckResult("CPU Governor", "", "Pass", "CPU frequency governor: {}",
                       <<governor>>, << >>, "Optimal for XDP performance")
      [] governor \in {"powersave", "conservative"} ->
           CheckResult("CPU Governor", "", "Warning", "CPU frequency governor: {}",
                       <<governor>>, << >>,
                       "Consider switching to 'performance' governor for better XDP throughput")
      [] OTHER ->
           CheckResult("CPU Governor", "", "Info", "CPU frequency governor: {}",
                       <<governor>>, << >>, None)

\* the content of the governor and isolated files is what trim() leaves of it
check_cpu_info(h) ==
    Ok(<<CheckResult("CPU Cores", "", "Info", "{} CPU cores available", << >>, <<h.cpus>>,
                     "More cores allow processing XDP on multiple queues")>>
       \o (IF h.scaling_governor.state = "ok"
           THEN <<governor_result(h.scaling_governor.content)>>
           ELSE << >>)
       \o (IF h.isolated.state = "ok" /\ h.isolated.content # ""
           THEN <<CheckResult("Isolated CPUs", "", "Pass", "Isolated CPUs: {}",
                              <<h.isolated.content>>, << >>,
                              "Isolated CPUs can be dedicated to XDP processing")>>
           ELSE << >>))

check_irq_affinity(h) ==
    LET irqbalance_running == h.pgrep_irqbalance = "ok"
    IN  IF irqbalance_running
        THEN CheckResult("IRQ Balance", "", "Info", "irqbalance service is running", << >>, << >>,
                         "Consider stopping irqbalance and manually setting IRQ affinity for XDP NICs")
        ELSE CheckResult("IRQ Balance", "", "Pass", "irqbalance is not running", << >>, << >>,
                         "Manual IRQ affinity configuration recommended for optimal XDP performance")

\* /proc/loadavg holds its whitespace-separated fields, the load averages in
\* hundredths; load1 / cpu_count < 0.7 is load1 * 100 < 70 * cpu_count
check_system_load(h) ==
    IF h.proc_loadavg.state # "ok" THEN Err("Failed to read /proc/loadavg")
    ELSE LET parts == h.proc_loadavg.content
         IN  IF Len(parts) < 3
             THEN Ok(CheckResult("System Load", "", "Warning", "Unable to determine system load",
                                 << >>, << >>, None))
             ELSE LET load1 == parts[1]
                      status == IF load1 < 70 * h.cpus THEN "Pass"
                                ELSE IF load1 < 90 * h.cpus THEN "Warning"
                                ELSE "Warning"
                  IN  Ok(CheckResult("System Load", "", status,
                                     "Load average: {} ({}% of {} cores)", << >>,
                                     <<load1, load1 \div h.cpus, h.cpus>>,
                                     IF status = "Pass"
                                     THEN "System has capacity for XDP processing"
                                     ELSE "System is under load. XDP performance may be affected."))

check_system_resources(h) ==
    LET huge == check_huge_pages(h)
        memlock == check_memlock_limit(h)
        cpu == check_cpu_info(h)
        load == check_system_load(h)
    IN  IF ~huge.ok THEN huge
        ELSE IF ~memlock.ok THEN memlock
        ELSE IF ~cpu.ok THEN cpu
        ELSE IF ~load.ok THEN load
        ELSE Ok(<<huge.value, memlock.value>> \o cpu.value
                \o <<check_irq_affinity(h), load.value>>)

(***************************************************************************)
(* nic.rs.  /sys/class/net is a directory whose content is the sequence of *)
(* its entries, in the order read_dir returns them; iface holds the sysfs  *)
(* tree and the ethtool state of each interface.  The content of operstate,*)
(* mtu and mode files is what trim() leaves of it.                         *)
(***************************************************************************)
GOOD_DRIVERS == <<"i40e", "ixgbe", "ice", "igb", "igc", "mlx5_core", "mlx4_core", "nfp", "bnxt_en">>

PROBLEMATIC_DRIVERS ==
    << <<"i40e", "multi-fragment packet bugs - requires workaround in slowgave XDP">> >>

ETHTOOL_GRINGPARAM == 16

IfaceNames == {"lo", "eth0", "eth1"}

IfaceBaseline ==
    [ operstate |-> File("ok", "up"),
      driver_link |-> "mlx5_core",
      uevent |-> File("ok", ""),
      xdp_dir |-> TRUE,
      prog_id |-> File("ok", <<"0", "\n">>),
      xdp_mode |-> File("missing", ""),
      queues |-> File("ok", <<4, 4>>),
      ring |-> [supported |-> TRUE, rx_pending |-> 512, tx_pending |-> 256],
      speed |-> File("ok", <<"1", "0", "0", "0", "0", "\n">>),
      mtu |-> File("ok", "1500") ]

\* what the paths of an interface that does not exist look like
IfaceMissing ==
    [ operstate |-> File("missing", ""),
      driver_link |-> "",
      uevent |-> File("missing", ""),
      xdp_dir |-> FALSE,
      prog_id |-> File("missing", << >>),
      xdp_mode |-> File("missing", ""),
      queues |-> File("missing", <<0, 0>>),
      ring |-> [supported |-> FALSE, rx_pending |-> 0, tx_pending |-> 0],
      speed |-> File("missing", << >>),
      mtu |-> File("missing", "") ]

HostNicBaseline ==
    [ sys_class_net |-> File("ok", <<"lo", "eth0">>),
      iface |-> [i \in IfaceNames |-> IfaceBaseline],
      socket_ok |-> TRUE ]

\* Path::new("/sys/class/net/<interface>").exists()
interface_exists(h, interface) == interface \in Range(h.sys_class_net.content)

sysfs(h, interface) ==
    IF interface_exists(h, interface) /\ interface \in DOMAIN h.iface
    THEN h.iface[interface]
    ELSE IfaceMissing

network_interfaces(h) ==
    IF h.sys_class_net.state # "ok" THEN Err("read_dir /sys/class/net")
    ELSE Ok(h.sys_class_net.content)

\* the driver symlink, else DEVTYPE= of uevent, else "unknown"
interface_driver(h, interface) ==
    LET fs == sysfs(h, interface)
    IN  IF fs.driver_link # "" THEN Ok(fs.driver_link)
        ELSE IF fs.uevent.state = "ok" /\ fs.uevent.content # "" THEN Ok(fs.uevent.content)
        ELSE Ok("unknown")

contains(list, x) == \E i \in 1..Len(list) : list[i] = x

\* an identifier that counts as a program whenever the file is not empty
prog_id_attached_nonempty(prog_id) == prog_id # << >>

\* prog_id != "0" && !prog_id.is_empty()
prog_id_attached(prog_id) == prog_id # <<"0">> /\ prog_id # << >>

check_xdp_support(h, interface) ==
    LET fs == sysfs(h, interface)
        driver == unwrap_or(interface_driver(h, interface), "unknown")
        prog_id == trim(fs.prog_id.content)
    IN  IF ~fs.xdp_dir
        THEN IF contains(GOOD_DRIVERS, driver)
             THEN Ok(CheckResult("XDP Support", interface, "Pass",
                                 "XDP-capable (driver supports native XDP)", <<driver>>, << >>,
                                 "Driver {} supports XDP but sysfs entries not visible"))
             ELSE Ok(CheckResult("XDP Support", interface, "Warning",
                                 "No XDP support detected", << >>, << >>,
                                 "XDP sysfs entries not found. Driver may not support native XDP."))
        ELSE IF fs.prog_id.state = "ok" /\ prog_id_attached(prog_id)
        THEN Ok(CheckResult("XDP Support", interface, "Pass",
                            "XDP program attached (ID: {})", <<prog_id>>, << >>,
                            "Interface has an active XDP program"))
        ELSE Ok(CheckResult("XDP Support", interface, "Pass",
                            "XDP-ready (no program attached)", << >>, << >>,
                            "Interface supports XDP but no program is currently attached"))

\* the rx- and tx- entries of queues/, each taken for 1 when none is found
interface_queues(h, interface) ==
    LET fs == sysfs(h, interface)
        rx == IF fs.queues.state = "ok" THEN fs.queues.content[1] ELSE 0
        tx == IF fs.queues.state = "ok" THEN fs.queues.content[2] ELSE 0
    IN  Ok(<<IF rx = 0 THEN 1 ELSE rx, IF tx = 0 THEN 1 ELSE tx>>)

\* a record that asks the driver to set the ring sizes to 64 entries
ring_param_request_set ==
    [ cmd |-> ETHTOOL_GRINGPARAM + 1,
      rx_max_pending |-> 0, rx_mini_max_pending |-> 0, rx_jumbo_max_pending |-> 0,
      tx_max_pending |-> 0,
      rx_pending |-> 64, rx_mini_pending |-> 0, rx_jumbo_pending |-> 0, tx_pending |-> 64 ]

\* mem::zeroed::<EthtoolRingParam>() with cmd set
ring_param_request ==
    [ cmd |-> ETHTOOL_GRINGPARAM,
      rx_max_pending |-> 0, rx_mini_max_pending |-> 0, rx_jumbo_max_pending |-> 0,
      tx_max_pending |-> 0,
      rx_pending |-> 0, rx_mini_pending |-> 0, rx_jumbo_pending |-> 0, tx_pending |-> 0 ]

IF_NAMESIZE == 16

\* the zero byte; every other byte is a string of one character
NUL == ""

\* a name field whose last byte is whatever the copy left there
ifr_name_unterminated(interface) ==
    [i \in 1..IF_NAMESIZE |->
        IF i <= Len(interface) THEN SubSeq(interface, i, i) ELSE NUL]

\* the name field of the ifreq: mem::zeroed(), the first
\* min(len, IF_NAMESIZE - 1) bytes of the name copied in, the last byte set to 0
ifr_name(interface) ==
    LET len == IF Len(interface) < IF_NAMESIZE - 1 THEN Len(interface) ELSE IF_NAMESIZE - 1
        zeroed == [i \in 1..IF_NAMESIZE |-> NUL]
        copied == [i \in 1..IF_NAMESIZE |->
                      IF i <= len THEN SubSeq(interface, i, i) ELSE zeroed[i]]
    IN  [copied EXCEPT ![IF_NAMESIZE] = NUL]

\* the string a name field holds: its bytes up to the first zero byte
RECURSIVE c_str_from(_, _)
c_str_from(bytes, i) ==
    IF i > Len(bytes) \/ bytes[i] = NUL THEN ""
    ELSE bytes[i] \o c_str_from(bytes, i + 1)

c_str(bytes) == c_str_from(bytes, 1)

\* the kernel's side of ioctl(fd, SIOCETHTOOL, &ifr).  When the interface the
\* name field names exists and its driver answers: the get-ring-parameters
\* command fills the record in and leaves the device as it is, the command
\* after it in the kernel's numbering (set ring parameters) writes the
\* record's counts to the device.  Everything else fails and changes nothing.
ioctl_SIOCETHTOOL(h, name_field, ring_param) ==
    LET name == c_str(name_field)
        fs == sysfs(h, name)
    IN  IF ~(interface_exists(h, name) /\ fs.ring.supported)
        THEN [res |-> -1, ring_param |-> ring_param, host |-> h]
        ELSE IF ring_param.cmd = ETHTOOL_GRINGPARAM
        THEN [res |-> 0,
              ring_param |-> [ring_param EXCEPT !.rx_max_pending = 4096,
                                                !.tx_max_pending = 4096,
                                                !.rx_pending = fs.ring.rx_pending,
                                                !.tx_pending = fs.ring.tx_pending],
              host |-> h]
        ELSE IF ring_param.cmd = ETHTOOL_GRINGPARAM + 1
        THEN [res |-> 0,
              ring_param |-> ring_param,
              host |-> [h EXCEPT !.iface[name].ring.rx_pending = ring_param.rx_pending,
                                 !.iface[name].ring.tx_pending = ring_param.tx_pending]]
        ELSE [res |-> -1, ring_param |-> ring_param, host |-> h]

\* the ifreq handed to the request: its name field and the record it points to
Ifreq(name_field, ring_param) == [ifr_name |-> name_field, ifru_data |-> ring_param]

\* ring_parameters_ethtool is not running
NoFrame == [interface |-> "", fd |-> -1, ifr |-> Ifreq(ifr_name(""), ring_param_request),
            res |-> 0]

\* a handle that is closed on the successful path only
close_on_return_success_only(open, fd, res) == IF res < 0 THEN open ELSE open \ {fd}

\* fd is an OwnedFd: it is closed when it goes out of scope, on either return
close_on_return(open, fd, res) == open \ {fd}

\* a request whose result code is not looked at
request_failed_unchecked(res) == FALSE

\* if res < 0 { return Err(...) }
request_failed(res) == res < 0

\* one call of ring_parameters_ethtool: what it returns, the host it leaves
\* and the requests it issued
ring_parameters_ethtool_run(h, interface) ==
    IF ~h.socket_ok
    THEN [result |-> Err("Failed to create socket"), host |-> h, requests |-> << >>]
    ELSE LET ifr == Ifreq(ifr_name(interface), ring_param_request)
             reply == ioctl_SIOCETHTOOL(h, ifr.ifr_name, ifr.ifru_data)
         IN  [result |-> IF request_failed(reply.res) THEN Err("ethtool ioctl failed")
                         ELSE Ok(<<reply.ring_param.rx_pending, reply.ring_param.tx_pending>>),
              host |-> reply.host,
              requests |-> <<ifr>>]

ring_parameters_ethtool(h, interface) == ring_parameters_ethtool_run(h, interface).result

\* the issues PROBLEMATIC_DRIVERS lists for the driver
known_issues(driver) ==
    LET listed == SelectSeq(PROBLEMATIC_DRIVERS, LAMBDA entry : entry[1] = driver)
    IN  [i \in 1..Len(listed) |-> listed[i][2]]

\* a classification in which every driver of GOOD_DRIVERS passes
driver_result_capable_passes(interface, driver) ==
    LET driver_status == IF contains(GOOD_DRIVERS, driver) THEN "Pass" ELSE "Warning"
        issues == known_issues(driver)
    IN  IF issues # << >>
        THEN CheckResult("Driver", interface, driver_status, "Network driver: {}",
                         <<driver, issues[1]>>, << >>, "Driver: {} - KNOWN ISSUE: {}")
        ELSE CheckResult("Driver", interface, driver_status, "Network driver: {}",
                         <<driver>>, << >>, "Driver: {}")

\* args holds the driver and, when the driver is listed with an issue, the
\* first issue listed for it
driver_result(interface, driver) ==
    LET driver_status == IF contains(GOOD_DRIVERS, driver)
                         THEN IF driver = "i40e" THEN "Warning" ELSE "Pass"
                         ELSE "Warning"
        issues == known_issues(driver)
    IN  IF issues # << >>
        THEN CheckResult("Driver", interface, driver_status, "Network driver: {}",
                         <<driver, issues[1]>>, << >>, "Driver: {} - KNOWN ISSUE: {}")
        ELSE CheckResult("Driver", interface, driver_status, "Network driver: {}",
                         <<driver>>, << >>, "Driver: {}")

\* a failed query reported as if it had succeeded, with the zeroed record
ring_result_zeroed_on_failure(h, interface) ==
    LET ring == ring_parameters_ethtool(h, interface)
    IN  CheckResult("Ring Buffers", interface, "Info", "RX: {}, TX: {}", << >>,
                    IF ring.ok THEN ring.value
                    ELSE <<ring_param_request.rx_pending, ring_param_request.tx_pending>>,
                    "Ring buffer size affects XDP performance and memory usage")

ring_result(h, interface) ==
    LET ring == ring_parameters_ethtool(h, interface)
    IN  IF ring.ok
        THEN CheckResult("Ring Buffers", interface, "Info", "RX: {}, TX: {}", << >>, ring.value,
                         "Ring buffer size affects XDP performance and memory usage")
        ELSE CheckResult("Ring Buffers", interface, "Warning",
                         "Unable to determine ring buffer sizes", << >>, << >>,
                         "Could not query ring parameters via ethtool")

speed_results(h, interface) ==
    LET fs == sysfs(h, interface)
        speed_mbps == parse_u32(trim(fs.speed.content))
    IN  IF fs.speed.state = "ok" /\ speed_mbps.ok
        THEN <<CheckResult("Speed", interface, "Info",
                           IF speed_mbps.value >= 10000 THEN "{} Gbps" ELSE "{} Mbps", << >>,
                           <<IF speed_mbps.value >= 10000 THEN speed_mbps.value \div 1000
                             ELSE speed_mbps.value>>, None)>>
        ELSE << >>

mtu_results(h, interface) ==
    LET fs == sysfs(h, interface)
    IN  IF fs.mtu.state = "ok"
        THEN <<CheckResult("MTU", interface, "Info", "MTU: {} bytes", <<fs.mtu.content>>, << >>, None)>>
        ELSE << >>

check_interface_internal(h, interface) ==
    IF ~interface_exists(h, interface)
    THEN Ok(<<CheckResult("Interface", interface, "Error", "Interface not found", << >>, << >>,
                          "No such interface: {}")>>)
    ELSE LET fs == sysfs(h, interface)
             operstate == IF fs.operstate.state = "ok" THEN fs.operstate.content ELSE "unknown"
             driver == interface_driver(h, interface)
             xdp_status == check_xdp_support(h, interface)
             queues == interface_queues(h, interface)
         IN  IF ~driver.ok THEN driver
             ELSE IF ~xdp_status.ok THEN xdp_status
             ELSE IF ~queues.ok THEN queues
             ELSE Ok(<<CheckResult("Status", interface,
                                   IF operstate = "up" THEN "Pass" ELSE "Info",
                                   "Interface state: {}", <<operstate>>, << >>, None),
                       driver_result(interface, driver.value),
                       xdp_status.value,
                       CheckResult("Queues", interface, "Info", "RX queues: {}, TX queues: {}",
                                   << >>, queues.value,
                                   "Multiple queues enable multi-core XDP processing"),
                       ring_result(h, interface)>>
                     \o speed_results(h, interface)
                     \o mtu_results(h, interface))

check_interface(h, interface) == check_interface_internal(h, interface)

\* a probe that only reads and asks nothing about one interface: the host is
\* as it was, no request was issued and no per-interface query made
NoEffect(h) == [host |-> h, requests |-> << >>, queries |-> << >>]

Query(interface, query) == [interface |-> interface, query |-> query]

\* a check that asks for the ring parameters before it looks whether the
\* interface exists
check_interface_effect_ring_first(h, interface) ==
    LET run == ring_parameters_ethtool_run(h, interface)
    IN  [host |-> run.host, requests |-> run.requests,
         queries |-> <<Query(interface, "ring_parameters_ethtool")>>]

\* what check_interface_internal does besides building its results: nothing
\* when the interface does not exist (it returns at once); otherwise the
\* driver, XDP support and queue queries, each followed by `?`, and then the
\* ring parameter query, the only one that issues a request
check_interface_effect(h, interface) ==
    IF ~interface_exists(h, interface) THEN NoEffect(h)
    ELSE IF ~interface_driver(h, interface).ok
    THEN [NoEffect(h) EXCEPT !.queries = <<Query(interface, "interface_driver")>>]
    ELSE IF ~check_xdp_support(h, interface).ok
    THEN [NoEffect(h) EXCEPT !.queries = <<Query(interface, "interface_driver"),
                                           Query(interface, "check_xdp_support")>>]
    ELSE IF ~interface_queues(h, interface).ok
    THEN [NoEffect(h) EXCEPT !.queries = <<Query(interface, "interface_driver"),
                                           Query(interface, "check_xdp_support"),
                                           Query(interface, "interface_queues")>>]
    ELSE LET run == ring_parameters_ethtool_run(h, interface)
         IN  [host |-> run.host, requests |-> run.requests,
              queries |-> <<Query(interface, "interface_driver"),
                            Query(interface, "check_xdp_support"),
                            Query(interface, "interface_queues"),
                            Query(interface, "ring_parameters_ethtool")>>]

\* the loop of check_all_interfaces from entry i on
RECURSIVE check_interfaces_from(_, _, _)
check_interfaces_from(h, interfaces, i) ==
    IF i > Len(interfaces) THEN Ok(<< >>)
    ELSE IF interfaces[i] = "lo" THEN check_interfaces_from(h, interfaces, i + 1)
    ELSE LET iface_results == check_interface_internal(h, interfaces[i])
             rest == check_interfaces_from(check_interface_effect(h, interfaces[i]).host,
                                           interfaces, i + 1)
         IN  IF ~iface_results.ok THEN iface_results
             ELSE IF ~rest.ok THEN rest
             ELSE Ok(iface_results.value \o rest.value)

\* what the loop does to the host from entry i on; it stops at the first Err
RECURSIVE check_interfaces_effect(_, _, _)
check_interfaces_effect(h, interfaces, i) ==
    IF i > Len(interfaces) THEN NoEffect(h)
    ELSE IF interfaces[i] = "lo" THEN check_interfaces_effect(h, interfaces, i + 1)
    ELSE LET first == check_interface_effect(h, interfaces[i])
             rest == check_interfaces_effect(first.host, interfaces, i + 1)
         IN  IF ~check_interface_internal(h, interfaces[i]).ok THEN first
             ELSE [host |-> rest.host, requests |-> first.requests \o rest.requests,
                   queries |-> first.queries \o rest.queries]

check_all_interfaces_effect(h) ==
    LET interfaces == network_interfaces(h)
    IN  IF ~interfaces.ok THEN NoEffect(h)
        ELSE check_interfaces_effect(h, interfaces.value, 1)

check_all_interfaces(h) ==
    LET interfaces == network_interfaces(h)
    IN  IF ~interfaces.ok THEN interfaces
        ELSE IF interfaces.value = << >>
        THEN Ok(<<CheckResult("Network Interfaces", "", "Warning", "No network interfaces found",
                              << >>, << >>, "Unable to detect network interfaces")>>)
        ELSE check_interfaces_from(h, interfaces.value, 1)

\* quick_interface_check asks for the driver of every interface but lo
quick_interface_check_effect(h) ==
    LET interfaces == network_interfaces(h)
    IN  IF ~interfaces.ok THEN NoEffect(h)
        ELSE LET others == SelectSeq(interfaces.value, LAMBDA i : i # "lo")
             IN  [NoEffect(h) EXCEPT
                    !.queries = [i \in 1..Len(others) |-> Query(others[i], "interface_driver")]]

quick_interface_check(h) ==
    LET interfaces == network_interfaces(h)
    IN  IF ~interfaces.ok THEN interfaces
        ELSE LET others == SelectSeq(interfaces.value, LAMBDA i : i # "lo")
                 xdp_capable == SelectSeq(others, LAMBDA i :
                                   contains(GOOD_DRIVERS, interface_driver(h, i).value))
                 non_xdp == SelectSeq(others, LAMBDA i :
                                   ~contains(GOOD_DRIVERS, interface_driver(h, i).value))
                 status == IF xdp_capable # << >> THEN "Pass"
                           ELSE IF non_xdp # << >> THEN "Warning"
                           ELSE "Fail"
             IN  Ok(<<CheckResult("XDP-capable Interfaces", "", status,
                                  "Found {} XDP-capable interface(s)",
                                  IF xdp_capable # << >> THEN xdp_capable ELSE non_xdp,
                                  <<Len(xdp_capable)>>,
                                  IF xdp_capable # << >> THEN "XDP-ready: {}"
                                  ELSE IF non_xdp # << >> THEN "Interfaces without native XDP: {}"
                                  ELSE "No network interfaces detected")>>)

(***************************************************************************)
(* runtime.rs.  /proc/net/xsk holds its number of lines, bpftool's output  *)
(* its number of lines, /sys/fs/bpf the names of its entries, /proc/mounts *)
(* the words of the mount table.                                           *)
(***************************************************************************)
HostRuntimeBaseline ==
    [ proc_net_xsk |-> File("missing", 0),
      which_bpftool |-> "ok",
      bpftool_prog_list |-> [run |-> "ok", lines |-> 0, programs |-> << >>],
      bpftool_prog_show |-> [run |-> "ok", lines |-> 1],
      sys_fs_bpf |-> File("ok", << >>),
      proc_mounts |-> File("ok", {"bpf", "proc", "sysfs"}) ]

\* prog_id is readable and, trimmed, neither "0" nor empty
program_attached(prog_id_file) ==
    /\ prog_id_file.state = "ok"
    /\ trim(prog_id_file.content) # <<"0">>
    /\ trim(prog_id_file.content) # << >>

check_all_xdp_runtime(h) ==
    IF h.sys_class_net.state # "ok" THEN Err("read_dir /sys/class/net")
    ELSE LET others == SelectSeq(h.sys_class_net.content, LAMBDA i : i # "lo")
             xdp_active == SelectSeq(others, LAMBDA i : program_attached(sysfs(h, i).prog_id))
         IN  Ok(<<CheckResult("Active XDP Programs", "",
                              IF xdp_active # << >> THEN "Pass" ELSE "Info",
                              "{} interface(s) with XDP programs", xdp_active,
                              <<Len(xdp_active)>>,
                              IF xdp_active # << >> THEN "Active on: {}"
                              ELSE "No XDP programs currently attached to any interface")>>)

\* bpftool prog show id <prog_id>: its first line, if it ran, succeeded and
\* wrote one
bpf_prog_info(h) ==
    IF h.bpftool_prog_show.run = "ok" /\ h.bpftool_prog_show.lines > 0
    THEN Ok("first line")
    ELSE Err("None")

xdp_program_results(h, interface) ==
    LET fs == sysfs(h, interface)
    IN  IF exists(fs.prog_id)
        THEN IF fs.prog_id.state # "ok" THEN << >>
             ELSE IF program_attached(fs.prog_id)
             THEN <<CheckResult("XDP Program", interface, "Pass", "XDP program active (ID: {})",
                                << >>, << >>, "XDP program is currently attached and running")>>
                  \o (IF bpf_prog_info(h).ok
                      THEN <<CheckResult("XDP Program Info", interface, "Info", "Program details",
                                         << >>, << >>, "{info}")>>
                      ELSE << >>)
             ELSE <<CheckResult("XDP Program", interface, "Info", "No XDP program attached",
                                << >>, << >>, None)>>
        ELSE <<CheckResult("XDP Runtime", interface, "Warning", "Unable to check XDP status",
                           << >>, << >>,
                           "XDP status file not found. Interface may not support XDP.")>>

\* a classification that fails the fallback mode
xdp_mode_status_generic_fails(mode) ==
    CASE mode \in {"native", "driver"} -> "Pass"
      [] mode \in {"generic", "skb"} -> "Fail"
      [] mode \in {"offload", "hw"} -> "Pass"
      [] OTHER -> "Info"

\* let mode_status = match mode { ... }
xdp_mode_status(mode) ==
    CASE mode \in {"native", "driver"} -> "Pass"
      [] mode \in {"generic", "skb"} -> "Warning"
      [] mode \in {"offload", "hw"} -> "Pass"
      [] OTHER -> "Info"

\* details: match mode { ... }
xdp_mode_details(mode) ==
    CASE mode \in {"native", "driver"} -> "Native/Driver mode - best performance"
      [] mode \in {"generic", "skb"} -> "Generic/SKB mode - slower, fallback mode"
      [] mode \in {"offload", "hw"} -> "Hardware offload - NIC processes XDP"
      [] OTHER -> None

xdp_mode_results(h, interface) ==
    LET fs == sysfs(h, interface)
        mode == fs.xdp_mode.content
    IN  IF fs.xdp_mode.state # "ok" THEN << >>
        ELSE <<CheckResult("XDP Mode", interface, xdp_mode_status(mode), "XDP mode: {}",
                           <<mode>>, << >>, xdp_mode_details(mode))>>

check_interface_xdp_runtime(h, interface) ==
    Ok(xdp_program_results(h, interface) \o xdp_mode_results(h, interface))

check_xsk_sockets(h) ==
    IF h.proc_net_xsk.state = "ok" /\ h.proc_net_xsk.content > 1
    THEN CheckResult("AF_XDP Sockets", "", "Pass", "{} AF_XDP socket(s) active", << >>,
                     <<h.proc_net_xsk.content - 1>>, "Active AF_XDP sockets detected")
    ELSE IF h.proc_modules.state = "ok" /\ modules_contain(h.proc_modules.content, "xsk_diag")
    THEN CheckResult("AF_XDP Support", "", "Info", "XSK diagnostic module loaded", << >>, << >>,
                     "AF_XDP support available but no active sockets")
    ELSE CheckResult("AF_XDP Sockets", "", "Info", "No AF_XDP sockets detected", << >>, << >>,
                     "AF_XDP socket monitoring may not be available")

\* an entry of /sys/fs/bpf whose name holds "xdp" or "xsk"
pinned_name_matches(name) == name \in {"xdp_prog", "xsk_map"}

check_bpf_programs(h) ==
    LET bpftool_available == h.which_bpftool = "ok"
        prog_count == h.bpftool_prog_list.lines
        pinned == IF h.sys_fs_bpf.state = "ok"
                  THEN SelectSeq(h.sys_fs_bpf.content, pinned_name_matches)
                  ELSE << >>
    IN  Ok((IF bpftool_available /\ h.bpftool_prog_list.run = "ok"
            THEN <<CheckResult("BPF Programs (XDP)", "",
                               IF prog_count > 0 THEN "Pass" ELSE "Info",
                               "{} XDP program(s) loaded", << >>, <<prog_count>>,
                               IF prog_count > 0
                               THEN "Use 'bpftool prog list type xdp' for details"
                               ELSE None)>>
            ELSE << >>)
           \o (IF exists(h.sys_fs_bpf) /\ pinned # << >>
               THEN <<CheckResult("Pinned BPF Programs", "", "Info",
                                  "{} XDP-related pinned program(s)", << >>, <<Len(pinned)>>,
                                  "Found in {}")>>
               ELSE << >>)
           \o (IF h.proc_mounts.state = "ok" /\ "bpf" \in h.proc_mounts.content
               THEN <<CheckResult("BPF Filesystem", "", "Pass", "BPF filesystem mounted",
                                  << >>, << >>,
                                  "BPF filesystem is available for pinning programs")>>
               ELSE << >>))

NoInterface == ""

\* check_xdp_runtime(interface): interface is NoInterface for Option::None
check_xdp_runtime(h, interface) ==
    LET attached == IF interface # NoInterface
                    THEN check_interface_xdp_runtime(h, interface)
                    ELSE check_all_xdp_runtime(h)
        programs == check_bpf_programs(h)
    IN  IF ~attached.ok THEN attached
        ELSE IF ~programs.ok THEN programs
        ELSE Ok(attached.value \o <<check_xsk_sockets(h)>> \o programs.value)

(***************************************************************************)
(* The hosts a run is checked on: the baseline host, with up to            *)
(* MaxDeviations of its facts replaced by another value (Deviations).      *)
(***************************************************************************)
Merge(a, b) == [k \in (DOMAIN a) \cup (DOMAIN b) |-> IF k \in DOMAIN a THEN a[k] ELSE b[k]]

HostBaseline ==
    Merge(HostKernelBaseline,
    Merge(HostCapabilitiesBaseline,
    Merge(HostSystemBaseline,
    Merge(HostNicBaseline, HostRuntimeBaseline))))

\* the values a fact of the host takes besides its baseline value
FileStates(contents) == {File("missing", c) : c \in contents} \cup {File("unreadable", c) : c \in contents}

KernelDeviations(h) ==
    {[h EXCEPT !.uname_ok = FALSE]}
    \cup {[h EXCEPT !.release = r] :
            r \in {<<"4", ".", "1", "7">>, <<"5", ".", "4", "-", "x">>, <<"x", ".", "x">>, <<"x">>}}
    \cup {[h EXCEPT !.boot_config_release = f] :
            f \in FileStates({{}}) \cup {File("ok", c) : c \in ConfigContents}}
    \cup {[h EXCEPT !.proc_config_gz = f] :
            f \in {File("ok", ConfigAllBuiltIn), File("unreadable", {})}}
    \cup {[h EXCEPT !.zcat = z] : z \in {"spawn_error", "exit_nonzero"}}
    \cup {[h EXCEPT !.boot_config = File("ok", ConfigAllBuiltIn)]}
    \cup {[h EXCEPT !.btf_vmlinux = File("missing", {})]}
    \cup {[h EXCEPT !.proc_modules = f] : f \in FileStates({{}}) \cup {File("ok", {})}}

CapabilitiesDeviations(h) ==
    {[h EXCEPT !.is_root = FALSE]}
    \cup {[h EXCEPT !.caps_effective = f] :
            f \in {File("unreadable", {}), File("ok", {}),
                   File("ok", {"CAP_NET_RAW", "CAP_NET_ADMIN"})}}
    \cup {[h EXCEPT !.caps_permitted = f] : f \in {File("unreadable", {}), File("ok", {})}}

SystemDeviations(h) ==
    {[h EXCEPT !.hugepages_2mb = f] :
        f \in FileStates({<< >>}) \cup {File("ok", <<"4", "\n">>), File("ok", <<"x", "\n">>)}}
    \cup {[h EXCEPT !.hugepages_1gb = File("ok", <<"1", "\n">>)]}
    \cup {[h EXCEPT !.rlimit_ok = FALSE]}
    \cup {[h EXCEPT !.rlimit_memlock = <<cur, RLIM_INFINITY>>] :
            cur \in {512 * MiB, 512 * MiB - 1, 64 * MiB, 64 * MiB - 1}}
    \cup {[h EXCEPT !.cpus = 1]}
    \cup {[h EXCEPT !.scaling_governor = f] :
            f \in FileStates({""}) \cup {File("ok", "powersave"), File("ok", "ondemand")}}
    \cup {[h EXCEPT !.isolated = f] : f \in FileStates({""}) \cup {File("ok", "2-3")}}
    \cup {[h EXCEPT !.pgrep_irqbalance = p] : p \in {"ok", "spawn_error"}}
    \cup {[h EXCEPT !.proc_loadavg = f] :
            f \in FileStates({<< >>})
                  \cup {File("ok", << >>), File("ok", <<150, 40, 30>>), File("ok", <<190, 40, 30>>)}}

InterfaceDeviations(h, i) ==
    {[h EXCEPT !.iface[i].operstate = f] : f \in {File("unreadable", ""), File("ok", "down")}}
    \cup {[h EXCEPT !.iface[i].driver_link = d] : d \in {"", "i40e", "e1000e"}}
    \cup {[h EXCEPT !.iface[i].uevent = File("ok", "wlan")]}
    \cup {[h EXCEPT !.iface[i].xdp_dir = FALSE]}
    \cup {[h EXCEPT !.iface[i].prog_id = f] :
            f \in FileStates({<< >>}) \cup {File("ok", <<"4", "2", "\n">>), File("ok", <<"\n">>)}}
    \cup {[h EXCEPT !.iface[i].xdp_mode = f] :
            f \in {File("unreadable", "")}
                  \cup {File("ok", m) : m \in {"native", "generic", "offload", "multi"}}}
    \cup {[h EXCEPT !.iface[i].queues = f] : f \in {File("unreadable", <<0, 0>>), File("ok", <<0, 0>>)}}
    \cup {[h EXCEPT !.iface[i].ring = [supported |-> FALSE, rx_pending |-> 0, tx_pending |-> 0]]}
    \cup {[h EXCEPT !.iface[i].speed = f] :
            f \in {File("unreadable", << >>), File("ok", <<"1", "0", "0", "0", "\n">>),
                   File("ok", <<"-", "1", "\n">>)}}
    \cup {[h EXCEPT !.iface[i].mtu = File("unreadable", "")]}

NicDeviations(h) ==
    {[h EXCEPT !.sys_class_net = f] :
        f \in {File("unreadable", << >>), File("ok", << >>), File("ok", <<"lo">>),
               File("ok", <<"eth0", "lo", "eth1">>)}}
    \cup {[h EXCEPT !.socket_ok = FALSE]}
    \cup InterfaceDeviations(h, "eth0")

RuntimeDeviations(h) ==
    {[h EXCEPT !.proc_net_xsk = f] : f \in {File("unreadable", 0), File("ok", 1), File("ok", 3)}}
    \cup {[h EXCEPT !.which_bpftool = w] : w \in {"spawn_error", "exit_nonzero"}}
    \cup {[h EXCEPT !.bpftool_prog_list = b] :
            b \in {[run |-> "spawn_error", lines |-> 0, programs |-> << >>],
                   [run |-> "exit_nonzero", lines |-> 0, programs |-> << >>],
                   [run |-> "ok", lines |-> 2, programs |-> <<"xdp_prog">>]}}
    \cup {[h EXCEPT !.bpftool_prog_show = b] :
            b \in {[run |-> "exit_nonzero", lines |-> 0], [run |-> "ok", lines |-> 0]}}
    \cup {[h EXCEPT !.sys_fs_bpf = f] :
            f \in FileStates({<< >>}) \cup {File("ok", <<"xdp_prog", "other">>)}}
    \cup {[h EXCEPT !.proc_mounts = f] : f \in {File("unreadable", {}), File("ok", {"proc"})}}

Deviations(h) ==
    KernelDeviations(h) \cup CapabilitiesDeviations(h) \cup SystemDeviations(h)
    \cup NicDeviations(h) \cup RuntimeDeviations(h)

RECURSIVE Hosts(_)
Hosts(k) ==
    IF k = 0 THEN {HostBaseline}
    ELSE LET nearer == Hosts(k - 1)
         IN  nearer \cup UNION {Deviations(h) : h \in nearer}

HostSet == Hosts(MaxDeviations)

(***************************************************************************)
(* main.rs: one run of the tool.  pc is the position of main; ret is what  *)
(* the last probe returned; exit_code is -1 while the process runs.        *)
(***************************************************************************)
Cli(command, skip_runtime, interface, format, verbose) ==
    [command |-> command, skip_runtime |-> skip_runtime, interface |-> interface,
     format |-> format, verbose |-> verbose]

Commands ==
    {<<"none", FALSE, NoInterface>>, <<"check", FALSE, NoInterface>>,
     <<"check", TRUE, NoInterface>>, <<"kernel", FALSE, NoInterface>>,
     <<"nic", FALSE, "eth0">>, <<"nic", FALSE, "wlan9">>,
     <<"runtime", FALSE, NoInterface>>, <<"runtime", FALSE, "eth0">>,
     <<"quick", FALSE, NoInterface>>}

Clis ==
    {Cli(c[1], c[2], c[3], f[1], f[2]) :
        c \in Commands, f \in {<<"human", FALSE>>, <<"human", TRUE>>, <<"json", FALSE>>}}

Running == -1

\* no probe has returned yet
NoReturn == Ok(<< >>)

Init ==
    /\ report = Report_new
    /\ calls = << >>
    /\ printed = << >>
    /\ json_out = << >>
    /\ pc = "main"
    /\ cli \in Clis
    /\ host \in HostSet
    /\ ret = NoReturn
    /\ exit_code = Running
    /\ sockets = {}
    /\ frame = NoFrame
    /\ requests = << >>
    /\ queries = << >>

\* main: the match on cli.command, and Report::new() of the function it calls
Main ==
    /\ pc = "main"
    /\ pc' = CASE cli.command \in {"none", "check"} -> "full_kernel"
               [] cli.command = "kernel" -> "kernel_kernel"
               [] cli.command = "nic" -> "nic_interface"
               [] cli.command = "runtime" -> "runtime_runtime"
               [] cli.command = "quick" -> "quick_kernel"
    /\ report' = Report_new
    /\ UNCHANGED <<calls, printed, json_out, cli, host,
                   sockets, frame, requests, queries, ret, exit_code>>

\* a run that goes on to the next step when a probe has returned Err
ProbeStep_continue_after_error(at, result, effect, section, next) ==
    /\ pc = at
    /\ ret' = result
    /\ host' = effect.host
    /\ requests' = requests \o effect.requests
    /\ queries' = queries \o effect.queries
    /\ pc' = next
    /\ IF result.ok
       THEN /\ report' = add_section(report, section, result.value)
            /\ calls' = Append(calls, [name |-> section, results |-> result.value])
       ELSE UNCHANGED <<report, calls>>
    /\ UNCHANGED <<printed, json_out, cli, sockets, frame, exit_code>>

\* let results = probe()?; report.add_section(section, results);
\* effect is what the probe has done to the host by the time it returns
ProbeStep(at, result, effect, section, next) ==
    /\ pc = at
    /\ ret' = result
    /\ host' = effect.host
    /\ requests' = requests \o effect.requests
    /\ queries' = queries \o effect.queries
    /\ IF result.ok
       THEN /\ report' = add_section(report, section, result.value)
            /\ calls' = Append(calls, [name |-> section, results |-> result.value])
            /\ pc' = next
       ELSE /\ pc' = "error"
            /\ UNCHANGED <<report, calls>>
    /\ UNCHANGED <<printed, json_out, cli, sockets, frame, exit_code>>

\* match cli.format { Human => print_human(verbose), Json => print_json()? }
\* (print_json fails only if serialisation does, which it cannot for a Report)
RenderStep(at, next) ==
    /\ pc = at
    /\ IF cli.format = "human"
       THEN printed' = print_human(report, cli.verbose) /\ UNCHANGED json_out
       ELSE json_out' = <<ReportSummary(report)>> /\ UNCHANGED printed
    /\ pc' = next
    /\ UNCHANGED <<report, calls, cli, host, sockets, frame, requests, queries, ret, exit_code>>

\* a verdict that always lets the process end with status 0
exit_status_always_zero(r) == 0

\* if !report.is_compatible() { process::exit(1) } Ok(())
exit_status(r) == IF ~is_compatible(r) THEN 1 ELSE 0

\* a runtime check that ends with status 1 unless every result is Pass or Info
runtime_exit_status_strict(r) ==
    IF \E n \in DOMAIN r.sections : \E i \in 1..Len(r.sections[n]) :
          r.sections[n][i].status \notin {"Pass", "Info"}
    THEN 1 ELSE 0

\* run_runtime_check ends with Ok(()) whatever the report holds
runtime_exit_status(r) == 0

ExitStep(at, status) ==
    /\ pc = at
    /\ exit_code' = status
    /\ pc' = "exited"
    /\ UNCHANGED <<report, calls, printed, json_out, cli, host,
                   sockets, frame, requests, queries, ret>>

FullKernel ==
    ProbeStep("full_kernel", check_kernel_compatibility(host),
              NoEffect(host), "Kernel", "full_capabilities")

FullCapabilities ==
    ProbeStep("full_capabilities", check_capabilities(host),
              NoEffect(host), "Capabilities", "full_system")

FullSystem ==
    ProbeStep("full_system", check_system_resources(host),
              NoEffect(host), "System Resources", "full_nic")

\* a full check that runs the runtime probe whatever skip_runtime says
runtime_selected_always(c) == TRUE

\* !matches!(cli.command, Some(Commands::Check { skip_runtime: true, .. }))
runtime_selected(c) == ~(c.command = "check" /\ c.skip_runtime)

FullNic ==
    ProbeStep("full_nic", check_all_interfaces(host),
              check_all_interfaces_effect(host), "Network Interfaces",
              IF runtime_selected(cli) THEN "full_runtime" ELSE "full_render")

FullRuntime ==
    ProbeStep("full_runtime", check_xdp_runtime(host, NoInterface),
              NoEffect(host), "Runtime Status", "full_render")

FullRender == RenderStep("full_render", "full_exit")

FullExit == ExitStep("full_exit", exit_status(report))

KernelKernel ==
    ProbeStep("kernel_kernel", check_kernel_compatibility(host),
              NoEffect(host), "Kernel", "kernel_render")

KernelRender == RenderStep("kernel_render", "kernel_exit")

KernelExit == ExitStep("kernel_exit", exit_status(report))

\* the section is named "Interface: <interface>"
NicInterface ==
    ProbeStep("nic_interface", check_interface(host, cli.interface),
              check_interface_effect(host, cli.interface), "Interface: {}", "nic_render")

NicRender == RenderStep("nic_render", "nic_exit")

NicExit == ExitStep("nic_exit", exit_status(report))

RuntimeRuntime ==
    ProbeStep("runtime_runtime", check_xdp_runtime(host, cli.interface),
              NoEffect(host), "Runtime Status",
              "runtime_render")

RuntimeRender == RenderStep("runtime_render", "runtime_exit")

RuntimeExit == ExitStep("runtime_exit", runtime_exit_status(report))

QuickKernel == ProbeStep("quick_kernel", quick_kernel_check(host),
              NoEffect(host), "Kernel", "quick_capabilities")

QuickCapabilities ==
    ProbeStep("quick_capabilities", quick_capability_check(host),
              NoEffect(host), "Capabilities", "quick_nic")

QuickNic ==
    ProbeStep("quick_nic", quick_interface_check(host),
              quick_interface_check_effect(host), "Network Interfaces", "quick_render")

QuickRender == RenderStep("quick_render", "quick_exit")

QuickExit == ExitStep("quick_exit", exit_status(report))

\* main: if let Err(e) = result { eprintln!(...); process::exit(1) }
MainError == ExitStep("error", 1)

Next ==
    \/ Main
    \/ FullKernel \/ FullCapabilities \/ FullSystem \/ FullNic \/ FullRuntime
    \/ FullRender \/ FullExit
    \/ KernelKernel \/ KernelRender \/ KernelExit
    \/ NicInterface \/ NicRender \/ NicExit
    \/ RuntimeRuntime \/ RuntimeRender \/ RuntimeExit
    \/ QuickKernel \/ QuickCapabilities \/ QuickNic \/ QuickRender \/ QuickExit
    \/ MainError

Spec == Init /\ [][Next]_vars

(***************************************************************************)
(* The aggregator on its own: any sequence of add_section calls on a new   *)
(* Report, then one rendering.  calls is the history of the arguments      *)
(* passed to add_section; printed and json_out are what the renderers      *)
(* wrote (empty until they run).                                           *)
(***************************************************************************)
SectionNames == {"Kernel", "Capabilities", "NIC"}

HarnessResults ==
    {CheckResult("check", "", s, "message", << >>, << >>, "details") : s \in CheckStatus}

ResultSeqs(n) == UNION {[1..k -> HarnessResults] : k \in 0..n}

RECURSIVE TotalResults(_, _)
TotalResults(cs, i) ==
    IF i > Len(cs) THEN 0 ELSE Len(cs[i].results) + TotalResults(cs, i + 1)

CliPlaceholder == Cli("none", FALSE, NoInterface, "human", FALSE)

InitReport ==
    /\ report = Report_new
    /\ calls = << >>
    /\ printed = << >>
    /\ json_out = << >>
    /\ pc = "harness"
    /\ cli = CliPlaceholder
    /\ host = HostBaseline
    /\ ret = NoReturn
    /\ exit_code = -1
    /\ sockets = {}
    /\ frame = NoFrame
    /\ requests = << >>
    /\ queries = << >>

Rendered == printed # << >> \/ json_out # << >>

AddSection ==
    /\ pc = "harness"
    /\ ~Rendered
    /\ Len(calls) < MaxCalls
    /\ \E name \in SectionNames :
       \E results \in ResultSeqs(MaxResults - TotalResults(calls, 1)) :
          /\ report' = add_section(report, name, results)
          /\ calls' = Append(calls, [name |-> name, results |-> results])
    /\ UNCHANGED <<printed, json_out, pc, cli, host,
                   sockets, frame, requests, queries, ret, exit_code>>

PrintHuman ==
    /\ pc = "harness"
    /\ ~Rendered
    /\ \E verbose \in BOOLEAN : printed' = print_human(report, verbose)
    /\ UNCHANGED <<report, calls, json_out, pc, cli, host,
                   sockets, frame, requests, queries, ret, exit_code>>

PrintJson ==
    /\ pc = "harness"
    /\ ~Rendered
    /\ json_out' = <<ReportSummary(report)>>
    /\ UNCHANGED <<report, calls, printed, pc, cli, host,
                   sockets, frame, requests, queries, ret, exit_code>>

NextReport == AddSection \/ PrintHuman \/ PrintJson

SpecReport == InitReport /\ [][NextReport]_vars

(***************************************************************************)
(* Properties of the aggregator, stated over the history of add_section    *)
(* calls.                                                                  *)
(***************************************************************************)
\* the positions of the stored results: <<section name, index>>
StoredAt == UNION {{<<n, i>> : i \in 1..Len(report.sections[n])} :
                      n \in DOMAIN report.sections}

StoredWith(statuses) == {p \in StoredAt : report.sections[p[1]][p[2]].status \in statuses}

CalledNames == {calls[i].name : i \in 1..Len(calls)}

CallsOf(n) == {i \in 1..Len(calls) : calls[i].name = n}

\* the results passed in by the last call made with name n
LatestResults(n) == calls[CHOOSE i \in CallsOf(n) : \A j \in CallsOf(n) : j <= i].results

\* C1: is_compatible() is true iff no stored result, in any section, has status
\* Fail or Error; and a call that passes in a Fail result, at whatever position
\* and under whatever name, leaves is_compatible() false.
C1_CompatibleIffNoFailure ==
    /\ is_compatible(report) = (StoredWith({"Fail", "Error"}) = {})
    /\ (/\ calls # << >>
        /\ \E i \in 1..Len(calls[Len(calls)].results) :
              calls[Len(calls)].results[i].status = "Fail")
       => ~is_compatible(report)

\* a Fail stored second in one of two sections, behind a Pass
C1_Witness ==
    /\ Cardinality(DOMAIN report.sections) = 2
    /\ \E n \in DOMAIN report.sections :
          /\ Len(report.sections[n]) = 2
          /\ report.sections[n][1].status = "Pass"
          /\ report.sections[n][2].status = "Fail"
    /\ ~is_compatible(report)

\* the visits of a human rendering: its section headers and result lines
Visit(kind, section, result) == [kind |-> kind, section |-> section, result |-> result]

IsVisit(line) == line.kind \in {"section", "result"}

RECURSIVE VisitsOf(_, _)
VisitsOf(lines, i) ==
    IF i > Len(lines) THEN << >>
    ELSE (IF IsVisit(lines[i])
          THEN <<Visit(lines[i].kind, lines[i].section, lines[i].result)>>
          ELSE << >>) \o VisitsOf(lines, i + 1)

RECURSIVE ExpectedVisits(_)
ExpectedVisits(k) ==
    IF k > Len(calls) THEN << >>
    ELSE LET n == calls[k].name
             rs == LatestResults(n)
         IN  <<Visit("section", n, NoResult)>>
             \o [i \in 1..Len(rs) |-> Visit("result", n, rs[i])]
             \o ExpectedVisits(k + 1)

\* C2: print_human visits the sections in the order of the add_section calls,
\* one visit per call, and inside a visit the results stored under the name in
\* the order they were passed in; a section holding no result is visited too.
C2_HumanVisitsInCallOrder ==
    printed # << >> => VisitsOf(printed, 1) = ExpectedVisits(1)

\* three sections rendered, the middle one added with zero results
C2_Witness ==
    /\ printed # << >>
    /\ Len(calls) = 3
    /\ Cardinality(CalledNames) = 3
    /\ calls[1].results # << >>
    /\ calls[2].results = << >>
    /\ calls[3].results # << >>

SumCounts(c) == c.pass + c.fail + c.warning + c.info + c.error

RECURSIVE TotalLatest(_)
TotalLatest(names) ==
    IF names = {} THEN 0
    ELSE LET n == CHOOSE n \in names : TRUE
         IN  Len(LatestResults(n)) + TotalLatest(names \ {n})

\* C3: after add_section was called twice with one name, the name holds the
\* second call's results only (is_compatible and the counts see nothing of the
\* first call's), and the order list holds the name at both positions.
C3_DuplicateNameReplaces ==
    \A n \in CalledNames :
       Cardinality(CallsOf(n)) >= 2 =>
          /\ report.sections[n] = LatestResults(n)
          /\ {i \in 1..Len(report.order) : report.order[i] = n} = CallsOf(n)
          /\ is_compatible(report) =
                (\A m \in CalledNames : \A i \in 1..Len(LatestResults(m)) :
                    ~is_failure(LatestResults(m)[i].status))
          /\ SumCounts(check_counts(report)) = TotalLatest(CalledNames)

\* a name added with a Fail and then again without one: the report is compatible
C3_Witness ==
    /\ Len(calls) = 2
    /\ calls[1].name = calls[2].name
    /\ Len(calls[1].results) = 1
    /\ calls[1].results[1].status = "Fail"
    /\ Len(calls[2].results) = 1
    /\ calls[2].results[1].status = "Pass"
    /\ report.order = <<calls[1].name, calls[1].name>>
    /\ is_compatible(report)

\* C4: in the structured output each of the five counts is the number of stored
\* results of that severity, the counts sum to the number of stored results, and
\* the compatible flag is true exactly when fail + error = 0.
C4_JsonCounts ==
    json_out # << >> =>
       LET c == json_out[1].check_counts
       IN  /\ c.pass = Cardinality(StoredWith({"Pass"}))
           /\ c.fail = Cardinality(StoredWith({"Fail"}))
           /\ c.warning = Cardinality(StoredWith({"Warning"}))
           /\ c.info = Cardinality(StoredWith({"Info"}))
           /\ c.error = Cardinality(StoredWith({"Error"}))
           /\ SumCounts(c) = Cardinality(StoredAt)
           /\ json_out[1].compatible = (c.fail + c.error = 0)

\* a structured output over two sections holding an Error and a Warning
C4_Witness ==
    /\ json_out # << >>
    /\ Cardinality(DOMAIN report.sections) = 2
    /\ json_out[1].check_counts.error = 1
    /\ json_out[1].check_counts.warning = 1
    /\ json_out[1].compatible = FALSE

(***************************************************************************)
(* The kernel version check on its own: uname() fails or returns a release *)
(* string over ReleaseChars, and quick_kernel_check runs on it.            *)
(***************************************************************************)
ReleaseChars == {"0", "1", "4", "6", "7", "8", "9", ".", "-", "x"}

Releases == UNION {[1..k -> ReleaseChars] : k \in 0..MaxReleaseLen}

InitKernel ==
    /\ report = Report_new
    /\ calls = << >>
    /\ printed = << >>
    /\ json_out = << >>
    /\ pc = "kernel"
    /\ cli = CliPlaceholder
    /\ \E release \in Releases, uname_ok \in BOOLEAN :
          host = [HostBaseline EXCEPT !.release = release, !.uname_ok = uname_ok]
    /\ ret = NoReturn
    /\ exit_code = -1
    /\ sockets = {}
    /\ frame = NoFrame
    /\ requests = << >>
    /\ queries = << >>

QuickKernelCheck ==
    /\ pc = "kernel"
    /\ ret' = quick_kernel_check(host)
    /\ pc' = "kernel_done"
    /\ UNCHANGED <<report, calls, printed, json_out, cli, host,
                   sockets, frame, requests, queries, exit_code>>

NextKernel == QuickKernelCheck

SpecKernel == InitKernel /\ [][NextKernel]_vars

(***************************************************************************)
(* Properties of the kernel version check.                                 *)
(***************************************************************************)
\* (major, minor) >= t
VersionAtLeast(major, minor, t) == major > t[1] \/ (major = t[1] /\ minor >= t[2])

\* the version check has returned a result that classifies a parsed version
Classified == pc = "kernel_done" /\ ret.ok /\ ret.value[1].status # "Error"

\* C7: a parsed version (major, minor) is Fail below (4, 18), Warning from
\* (4, 18) up to but not including (6, 10), and Pass from (6, 10) on.
C7_ThreeWayClassification ==
    Classified =>
       LET r == ret.value[1]
           major == r.data[1]
           minor == r.data[2]
       IN  /\ r.status = "Fail" <=> ~VersionAtLeast(major, minor, <<4, 18>>)
           /\ r.status = "Warning" <=> /\ VersionAtLeast(major, minor, <<4, 18>>)
                                       /\ ~VersionAtLeast(major, minor, <<6, 10>>)
           /\ r.status = "Pass" <=> VersionAtLeast(major, minor, <<6, 10>>)

\* the release "4.18", the minimum itself, classified Warning
C7_Witness ==
    /\ Classified
    /\ host.release = <<"4", ".", "1", "8">>
    /\ ret.value[1].data = <<4, 18>>
    /\ ret.value[1].status = "Warning"

StatusRank(status) == CASE status = "Fail" -> 0 [] status = "Warning" -> 1 [] status = "Pass" -> 2

\* C8: from the version just classified, raising major with minor fixed, or
\* minor with major fixed, never gives a status lower in Fail < Warning < Pass.
C8_Monotonic ==
    Classified =>
       LET r == ret.value[1]
           major == r.data[1]
           minor == r.data[2]
       IN  /\ r.status = kernel_version_status(major, minor)
           /\ \A higher \in major..MaxMajor :
                 StatusRank(kernel_version_status(higher, minor)) >= StatusRank(r.status)
           /\ \A higher \in minor..MaxMinor :
                 StatusRank(kernel_version_status(major, higher)) >= StatusRank(r.status)

\* the release "6.10" classified Pass: every higher major must stay Pass
C8_Witness ==
    /\ Classified
    /\ host.release = <<"6", ".", "1", "0">>
    /\ ret.value[1].status = "Pass"

IsNumeric(s) == s # << >> /\ \A i \in 1..Len(s) : s[i] \in Digits

\* the release is "<digits>.<digits>" possibly followed by more, the pieces
\* being separated by '.' or '-'
ParsesToMajorMinor(release) ==
    \E i \in 1..Len(release), j \in 1..Len(release) + 1 :
       /\ i + 1 < j
       /\ IsNumeric(SubSeq(release, 1, i - 1))
       /\ release[i] \in {".", "-"}
       /\ IsNumeric(SubSeq(release, i + 1, j - 1))
       /\ (j = Len(release) + 1 \/ release[j] \in {".", "-"})

\* C9: a release that cannot be parsed into a numeric major.minor pair gives a
\* result with status Error, and no fatal error.
C9_UnparsableIsError ==
    (pc = "kernel_done" /\ host.uname_ok /\ ~ParsesToMajorMinor(host.release)) =>
       (ret.ok /\ ret.value[1].status = "Error")


(***************************************************************************)
(* Claims about one run of the tool (Spec).                                *)
(***************************************************************************)
Exited == pc = "exited"

\* the run ended because a probe returned Err
Fatal == ~ret.ok

RenderedInFormat ==
    IF cli.format = "human" THEN printed # << >> /\ json_out = << >>
    ELSE json_out = <<ReportSummary(report)>> /\ printed = << >>

HasStatus(statuses) ==
    \E n \in DOMAIN report.sections : \E i \in 1..Len(report.sections[n]) :
        report.sections[n][i].status \in statuses

\* C5: for the full, kernel-only, single-interface and quick commands, once
\* every probe has returned without a fatal error the report is rendered in
\* the chosen format and the process exits 0 when is_compatible() is true of
\* the report and 1 otherwise.
C5_ExitCodeFollowsVerdict ==
    (Exited /\ ~Fatal /\ cli.command \in {"none", "check", "kernel", "nic", "quick"})
        => /\ RenderedInFormat
           /\ exit_code = IF is_compatible(report) THEN 0 ELSE 1
           /\ (exit_code = 1) = HasStatus({"Fail", "Error"})

\* a full check, rendered as JSON, that ended with status 1 on a report that
\* holds a Fail or Error
C5_Witness ==
    /\ Exited /\ ~Fatal
    /\ cli.command = "check" /\ cli.format = "json"
    /\ Len(calls) = 5
    /\ ~is_compatible(report)
    /\ exit_code = 1

\* C6: the runtime-only command, with or without a target interface, exits 0
\* once its report is rendered, whatever the report holds.
C6_RuntimeExitsZero ==
    (Exited /\ ~Fatal /\ cli.command = "runtime") => RenderedInFormat /\ exit_code = 0

\* a runtime check of one interface whose report holds a Warning, ended with
\* status 0
C6_Witness ==
    /\ Exited /\ ~Fatal
    /\ cli.command = "runtime" /\ cli.interface = "eth0"
    /\ HasStatus({"Warning"})
    /\ exit_code = 0

\* the reads whose failure aborts the run: the kernel identity (uname), the
\* enumeration of the interfaces, and the process's own capability sets and
\* resource limit
MandatoryReadFailed ==
    \/ ~host.uname_ok
    \/ host.sys_class_net.state # "ok"
    \/ host.caps_effective.state # "ok"
    \/ host.caps_permitted.state # "ok"
    \/ ~host.rlimit_ok

\* C10: a run is aborted by a fatal error only when a read of mandatory data
\* failed; an error reading optional data (build configuration, module list,
\* load average, huge pages, governor, isolated CPUs, per-interface
\* attributes) never is fatal.
C10_OnlyMandatoryReadsAreFatal == Fatal => MandatoryReadFailed


(***************************************************************************)
(* The probes that run an external process, on their own: zcat on          *)
(* /proc/config.gz, pgrep irqbalance, which bpftool, bpftool prog list and *)
(* bpftool prog show.  Each command cannot be spawned, exits non-zero or   *)
(* succeeds; the kernel configuration is at /boot/config-<release>, only   *)
(* at /proc/config.gz, or nowhere; up to two XDP programs are loaded.      *)
(***************************************************************************)
CommandOutcomes == {"spawn_error", "exit_nonzero", "ok"}

ConfigLocations ==
    {[boot_config_release |-> File("ok", ConfigAllBuiltIn), proc_config_gz |-> File("missing", {})],
     [boot_config_release |-> File("missing", {}), proc_config_gz |-> File("ok", ConfigAllBuiltIn)],
     [boot_config_release |-> File("missing", {}), proc_config_gz |-> File("missing", {})]}

\* the XDP programs loaded, by name; bpftool prints two lines for each
ProgramNames == {"xdp_dispatcher", "xdp_pass"}

ProgramLists == UNION {[1..n -> ProgramNames] : n \in 0..2}

ProcessHosts ==
    {[HostBaseline EXCEPT !.boot_config_release = loc.boot_config_release,
                          !.proc_config_gz = loc.proc_config_gz,
                          !.zcat = zcat,
                          !.pgrep_irqbalance = pgrep,
                          !.which_bpftool = which,
                          !.bpftool_prog_list =
                              [run |-> list, lines |-> 2 * Len(programs), programs |-> programs],
                          !.bpftool_prog_show.run = show,
                          !.iface["eth0"].prog_id = prog_id] :
        loc \in ConfigLocations, zcat \in CommandOutcomes, pgrep \in CommandOutcomes,
        which \in CommandOutcomes, list \in CommandOutcomes, show \in CommandOutcomes,
        prog_id \in {File("ok", <<"0", "\n">>), File("ok", <<"4", "2", "\n">>)},
        programs \in ProgramLists}

InitProcess ==
    /\ report = Report_new
    /\ calls = << >>
    /\ printed = << >>
    /\ json_out = << >>
    /\ pc = "process"
    /\ cli = CliPlaceholder
    /\ host \in ProcessHosts
    /\ ret = NoReturn
    /\ exit_code = Running
    /\ sockets = {}
    /\ frame = NoFrame
    /\ requests = << >>
    /\ queries = << >>

ProbeReturns(result, done) ==
    /\ pc = "process"
    /\ ret' = result
    /\ pc' = done
    /\ UNCHANGED <<report, calls, printed, json_out, cli, host,
                   sockets, frame, requests, queries, exit_code>>

CheckKernelConfig == ProbeReturns(check_kernel_config(host), "kernel_config_done")

CheckIrqAffinity == ProbeReturns(Ok(<<check_irq_affinity(host)>>), "irq_affinity_done")

CheckBpfPrograms == ProbeReturns(check_bpf_programs(host), "bpf_programs_done")

CheckInterfaceXdpRuntime ==
    ProbeReturns(check_interface_xdp_runtime(host, "eth0"), "interface_xdp_runtime_done")

NextProcess ==
    \/ CheckKernelConfig
    \/ CheckIrqAffinity
    \/ CheckBpfPrograms
    \/ CheckInterfaceXdpRuntime

SpecProcess == InitProcess /\ [][NextProcess]_vars

\* C11: whatever the outcome of zcat, pgrep, which and bpftool (cannot be
\* spawned, non-zero exit, success), the probe that runs the command returns
\* its results and never a fatal error.
C11_ProcessFailureNeverFatal == ret.ok


(***************************************************************************)
(* check_capabilities on its own: the kernel reports release               *)
(* "<major>.<minor>" with or without a suffix, the process is root or not, *)
(* and its effective set is any subset of Capabilities.                    *)
(***************************************************************************)
Capabilities == {"CAP_NET_RAW", "CAP_NET_ADMIN", "CAP_BPF", "CAP_PERFMON", "CAP_SYS_ADMIN"}

DigitChar(n) == CHOOSE c \in Digits : DigitValue(c) = n

\* a number as the kernel prints it in the release
RECURSIVE ToDecimal(_)
ToDecimal(n) == IF n < 10 THEN <<DigitChar(n)>> ELSE ToDecimal(n \div 10) \o <<DigitChar(n % 10)>>

ReleaseString(major, minor, suffix) == ToDecimal(major) \o <<".">> \o ToDecimal(minor) \o suffix

KernelMajors == {4, 5, 6}

KernelMinors == {0, 7, 8, 9, 10, 18}

ReleaseSuffixes == {<< >>, <<".", "0", "-", "x">>}

CapabilityHosts ==
    {[HostBaseline EXCEPT !.release = ReleaseString(major, minor, suffix),
                          !.is_root = is_root,
                          !.caps_effective = File("ok", effective),
                          !.caps_permitted = File("ok", permitted)] :
        major \in KernelMajors, minor \in KernelMinors, suffix \in ReleaseSuffixes,
        is_root \in BOOLEAN, effective \in SUBSET Capabilities,
        permitted \in {{}, Capabilities}}

InitCapabilities ==
    /\ report = Report_new
    /\ calls = << >>
    /\ printed = << >>
    /\ json_out = << >>
    /\ pc = "capabilities"
    /\ cli = CliPlaceholder
    /\ host \in CapabilityHosts
    /\ ret = NoReturn
    /\ exit_code = Running
    /\ sockets = {}
    /\ frame = NoFrame
    /\ requests = << >>
    /\ queries = << >>

CheckCapabilities ==
    /\ pc = "capabilities"
    /\ ret' = check_capabilities(host)
    /\ pc' = "capabilities_done"
    /\ UNCHANGED <<report, calls, printed, json_out, cli, host,
                   sockets, frame, requests, queries, exit_code>>

NextCapabilities == CheckCapabilities

SpecCapabilities == InitCapabilities /\ [][NextCapabilities]_vars

\* the version the kernel of the host reports
HostVersion ==
    CHOOSE v \in KernelMajors \X KernelMinors :
        \E suffix \in ReleaseSuffixes : host.release = ReleaseString(v[1], v[2], suffix)

RequiredCapabilities ==
    {"CAP_NET_RAW", "CAP_NET_ADMIN"}
    \cup (IF VersionAtLeast(HostVersion[1], HostVersion[2], <<5, 8>>)
          THEN {"CAP_BPF", "CAP_PERFMON"} ELSE {"CAP_SYS_ADMIN"})

ResultsNamed(name) == {i \in 1..Len(ret.value) : ret.value[i].name = name}

\* C12: check_capabilities returns exactly one result per required capability
\* (NET_RAW, NET_ADMIN, and BPF and PERFMON from kernel 5.8 on or SYS_ADMIN
\* before), none for another capability, and each is Pass when the capability
\* is effective, Warning when it is not and the process is root, Fail when it
\* is not and the process is not root.
C12_OneResultPerRequiredCapability ==
    (pc = "capabilities_done" /\ ret.ok) =>
        \A cap \in Capabilities :
            IF cap \in RequiredCapabilities
            THEN /\ Cardinality(ResultsNamed(cap)) = 1
                 /\ \A i \in ResultsNamed(cap) :
                       ret.value[i].status =
                          IF cap \in host.caps_effective.content THEN "Pass"
                          ELSE IF host.is_root THEN "Warning" ELSE "Fail"
            ELSE ResultsNamed(cap) = {}

\* a non-root process on kernel 5.8 with CAP_NET_RAW only: Pass for it, Fail
\* for CAP_BPF, nothing for CAP_SYS_ADMIN
C12_Witness ==
    /\ pc = "capabilities_done" /\ ret.ok
    /\ HostVersion = <<5, 8>>
    /\ ~host.is_root
    /\ host.caps_effective.content = {"CAP_NET_RAW"}
    /\ \E i \in ResultsNamed("CAP_NET_RAW") : ret.value[i].status = "Pass"
    /\ \E i \in ResultsNamed("CAP_BPF") : ret.value[i].status = "Fail"
    /\ ResultsNamed("CAP_SYS_ADMIN") = {}


(***************************************************************************)
(* check_interface on its own: interface eth0 has any driver of            *)
(* DriverNames (by its driver link, or by DEVTYPE in uevent, or not at     *)
(* all), its ring parameters can or cannot be queried, its speed and mtu   *)
(* can or cannot be read; the interface checked is eth0 or one that does   *)
(* not exist.                                                              *)
(***************************************************************************)
DriverNames == Range(GOOD_DRIVERS) \cup {"e1000e", "virtio_net", ""}

InterfaceHosts ==
    {[HostBaseline EXCEPT !.iface["eth0"].driver_link = driver,
                          !.iface["eth0"].uevent = File("ok", devtype),
                          !.iface["eth0"].ring =
                              [supported |-> supported, rx_pending |-> rx, tx_pending |-> 256],
                          !.iface["eth0"].speed = speed,
                          !.iface["eth0"].mtu = mtu,
                          !.socket_ok = socket_ok] :
        driver \in DriverNames, devtype \in {"", "wlan"}, supported \in BOOLEAN,
        rx \in {0, 512}, socket_ok \in BOOLEAN,
        speed \in {File("ok", <<"1", "0", "0", "0", "\n">>), File("unreadable", << >>)},
        mtu \in {File("ok", "1500"), File("unreadable", "")}}

InitInterface ==
    /\ report = Report_new
    /\ calls = << >>
    /\ printed = << >>
    /\ json_out = << >>
    /\ pc = "interface"
    /\ \E interface \in {"eth0", "wlan9"} :
          cli = Cli("nic", FALSE, interface, "human", FALSE)
    /\ host \in InterfaceHosts
    /\ ret = NoReturn
    /\ exit_code = Running
    /\ sockets = {}
    /\ frame = NoFrame
    /\ requests = << >>
    /\ queries = << >>

CheckInterface ==
    /\ pc = "interface"
    /\ ret' = check_interface(host, cli.interface)
    /\ host' = check_interface_effect(host, cli.interface).host
    /\ requests' = requests \o check_interface_effect(host, cli.interface).requests
    /\ queries' = queries \o check_interface_effect(host, cli.interface).queries
    /\ pc' = "interface_done"
    /\ UNCHANGED <<report, calls, printed, json_out, cli, sockets, frame, exit_code>>

NextInterface == CheckInterface

SpecInterface == InitInterface /\ [][NextInterface]_vars

InterfaceChecked == pc = "interface_done" /\ interface_exists(host, cli.interface)

\* the positions of the results called name in what the check returned
Positions(name) ==
    IF ret.ok THEN {i \in 1..Len(ret.value) : ret.value[i].name = name} ELSE {}

Capable(driver) == driver \in Range(GOOD_DRIVERS)

Caveats(driver) ==
    {PROBLEMATIC_DRIVERS[i][2] : i \in {i \in 1..Len(PROBLEMATIC_DRIVERS) :
                                          PROBLEMATIC_DRIVERS[i][1] = driver}}

\* C13: the driver result of an interface names the driver it classifies and
\* is Pass for a driver that is capable and has no caveat, Warning with a
\* non-empty caveat note for a driver that is capable and has a caveat, and
\* Warning with no caveat note for a driver that is in neither list.
C13_DriverClassification ==
    InterfaceChecked =>
        /\ ret.ok
        /\ Cardinality(Positions("Driver")) = 1
        /\ \A i \in Positions("Driver") :
              LET result == ret.value[i]
                  driver == result.args[1]
                  fs == host.iface[cli.interface]
              IN  /\ fs.driver_link # "" => driver = fs.driver_link
                  /\ (Capable(driver) /\ Caveats(driver) = {}) => result.status = "Pass"
                  /\ (Capable(driver) /\ Caveats(driver) # {}) =>
                        /\ result.status = "Warning"
                        /\ Len(result.args) = 2
                        /\ result.args[2] \in Caveats(driver) \ {""}
                        /\ result.details = "Driver: {} - KNOWN ISSUE: {}"
                  /\ (~Capable(driver) /\ Caveats(driver) = {}) =>
                        /\ result.status = "Warning"
                        /\ Len(result.args) = 1
                        /\ result.details = "Driver: {}"

\* eth0 is driven by i40e: a Warning that carries the caveat
C13_Witness ==
    /\ InterfaceChecked
    /\ host.iface["eth0"].driver_link = "i40e"
    /\ \E i \in Positions("Driver") :
          /\ ret.value[i].status = "Warning"
          /\ ret.value[i].args = <<"i40e", PROBLEMATIC_DRIVERS[1][2]>>


\* the ring parameters of the interface checked can be queried
RingQueryable == host.socket_ok /\ host.iface[cli.interface].ring.supported

MaxQueries == 3

LongName == "enp0s31f6abcdef"

RingNames == {"", "eth0", LongName, "wlan9", LongName \o "g", LongName \o "gh"}

RingHosts ==
    {[HostBaseline EXCEPT
        !.sys_class_net = File("ok", <<"lo", "eth0", LongName>>),
        !.socket_ok = socket_ok,
        !.iface = [n \in IfaceNames \cup {LongName} |->
                     [IfaceBaseline EXCEPT !.ring =
                        [supported |-> IF n = "eth0" THEN supported ELSE TRUE,
                         rx_pending |-> IF n = "eth0" THEN 512 ELSE 1024,
                         tx_pending |-> IF n = "eth0" THEN 256 ELSE 128]]]] :
        socket_ok \in BOOLEAN, supported \in BOOLEAN}

InitRing ==
    /\ report = Report_new
    /\ calls = << >>
    /\ printed = << >>
    /\ json_out = << >>
    /\ pc = "ring_idle"
    /\ cli = CliPlaceholder
    /\ host \in RingHosts
    /\ ret = NoReturn
    /\ exit_code = Running
    /\ sockets = {}
    /\ frame = NoFrame
    /\ requests = << >>
    /\ queries = << >>

\* the lowest descriptor that is not open
lowest_free(open) == CHOOSE fd \in 3..(3 + Cardinality(open)) :
                        fd \notin open /\ \A other \in 3..(fd - 1) : other \in open

Returned(interface, fd, res, result) ==
    [name |-> interface, fd |-> fd, res |-> res, result |-> result]

\* let fd = socket(AF_INET, SOCK_DGRAM, 0); if fd < 0 { return Err(...) };
\* the record zeroed and its cmd set, the ifreq zeroed, the name copied into
\* it and the record hung on it
RingSocket ==
    /\ pc = "ring_idle"
    /\ Len(calls) < MaxQueries
    /\ \E interface \in RingNames :
          IF ~host.socket_ok
          THEN /\ ret' = Err("Failed to create socket")
               /\ calls' = Append(calls, Returned(interface, -1, 0, ret'))
               /\ UNCHANGED <<pc, sockets, frame>>
          ELSE LET fd == lowest_free(sockets)
               IN  /\ sockets' = sockets \cup {fd}
                   /\ frame' = [interface |-> interface, fd |-> fd,
                                ifr |-> Ifreq(ifr_name(interface), ring_param_request),
                                res |-> 0]
                   /\ pc' = "ring_ioctl"
                   /\ UNCHANGED <<ret, calls>>
    /\ UNCHANGED <<report, printed, json_out, cli, host, exit_code, requests, queries>>

\* let res = ioctl(fd, SIOCETHTOOL, &ifr)
RingIoctl ==
    /\ pc = "ring_ioctl"
    /\ LET reply == ioctl_SIOCETHTOOL(host, frame.ifr.ifr_name, frame.ifr.ifru_data)
       IN  /\ frame' = [frame EXCEPT !.ifr.ifru_data = reply.ring_param, !.res = reply.res]
           /\ host' = reply.host
    /\ requests' = Append(requests, frame.ifr)
    /\ pc' = "ring_return"
    /\ UNCHANGED <<report, calls, printed, json_out, cli, ret, exit_code, sockets, queries>>

\* if res < 0 { return Err(...) } Ok((ring_param.rx_pending, ring_param.tx_pending))
RingReturn ==
    /\ pc = "ring_return"
    /\ ret' = IF request_failed(frame.res) THEN Err("ethtool ioctl failed")
              ELSE Ok(<<frame.ifr.ifru_data.rx_pending, frame.ifr.ifru_data.tx_pending>>)
    /\ sockets' = close_on_return(sockets, frame.fd, frame.res)
    /\ calls' = Append(calls, Returned(frame.interface, frame.fd, frame.res, ret'))
    /\ frame' = NoFrame
    /\ pc' = "ring_idle"
    /\ UNCHANGED <<report, printed, json_out, cli, host, exit_code, requests, queries>>

NextRing == RingSocket \/ RingIoctl \/ RingReturn

SpecRing == InitRing /\ [][NextRing]_vars


\* an interface of the host has this name
InterfaceNamed(name) == name \in Range(host.sys_class_net.content)

\* the first IF_NAMESIZE - 1 bytes of the name
NameSent(name) == IF Len(name) > 15 THEN SubSeq(name, 1, 15) ELSE name

RingOf(name) == <<host.iface[name].ring.rx_pending, host.iface[name].ring.tx_pending>>

\* every query that returned: an error when no socket was created, an error
\* when the request returned a non-zero code, and otherwise the counts the
\* successful request wrote into the record
QueryErrorsReported(q) ==
    /\ q.fd < 0 => ~q.result.ok
    /\ q.res # 0 => ~q.result.ok
    /\ ~q.result.ok => (q.fd < 0 \/ q.res # 0)

C16_NoSocketRemainsOpen ==
    /\ pc = "ring_idle" => sockets = {}
    /\ pc # "ring_idle" => sockets = {frame.fd}

\* two queries have returned, one after a failed request and one after a
\* successful one, and no socket is open
C16_Witness ==
    /\ pc = "ring_idle"
    /\ sockets = {}
    /\ \E i, j \in 1..Len(calls) :
          /\ calls[i].fd >= 0 /\ ~calls[i].result.ok
          /\ calls[j].fd >= 0 /\ calls[j].result.ok


(***************************************************************************)
(* check_memlock_limit on its own: the soft limit is any number of whole   *)
(* megabytes up to the largest the type holds, exactly, one byte above, or *)
(* one byte below the next megabyte (the last of these is RLIM_INFINITY);  *)
(* the hard limit is the same or unlimited.                                *)
(***************************************************************************)
MemlockLimits ==
    {mb * MiB + bytes : mb \in 0..(RLIM_INFINITY \div MiB), bytes \in {0, 1, MiB - 1}}

MemlockHosts ==
    {[HostBaseline EXCEPT !.rlimit_ok = rlimit_ok,
                          !.rlimit_memlock = <<cur, IF unlimited THEN RLIM_INFINITY ELSE cur>>] :
        rlimit_ok \in BOOLEAN, cur \in MemlockLimits, unlimited \in BOOLEAN}

InitMemlock ==
    /\ report = Report_new
    /\ calls = << >>
    /\ printed = << >>
    /\ json_out = << >>
    /\ pc = "memlock"
    /\ cli = CliPlaceholder
    /\ host \in MemlockHosts
    /\ ret = NoReturn
    /\ exit_code = Running
    /\ sockets = {}
    /\ frame = NoFrame
    /\ requests = << >>
    /\ queries = << >>

CheckMemlockLimit ==
    /\ pc = "memlock"
    /\ ret' = check_memlock_limit(host)
    /\ pc' = "memlock_done"
    /\ UNCHANGED <<report, calls, printed, json_out, cli, host,
                   sockets, frame, requests, queries, exit_code>>

NextMemlock == CheckMemlockLimit

SpecMemlock == InitMemlock /\ [][NextMemlock]_vars

\* C17: the Memory Lock Limit result is Pass when the soft limit is unlimited
\* or at least 512 * 2^20 bytes, Warning when it is at least 64 * 2^20 bytes
\* and less than 512 * 2^20, and Fail when it is less than 64 * 2^20: whole
\* megabytes, so one byte below 512 MB is 511 MB and Warning.
C17_MemlockThresholds ==
    (pc = "memlock_done" /\ ret.ok) =>
        LET cur == host.rlimit_memlock[1]
        IN  /\ ret.value.name = "Memory Lock Limit"
            /\ ret.value.status =
                  IF cur = RLIM_INFINITY \/ cur >= 512 * 1048576 THEN "Pass"
                  ELSE IF cur >= 64 * 1048576 THEN "Warning"
                  ELSE "Fail"
            /\ cur = RLIM_INFINITY => ret.value.message = "Unlimited memory lock"

\* exactly 512 MB is Pass
C17_Witness ==
    /\ pc = "memlock_done" /\ ret.ok
    /\ host.rlimit_memlock[1] = 512 * 1048576
    /\ ret.value.status = "Pass"
    /\ ret.value.data[1] = 512


\* the program whose presence the runtime probe is to flag
DistinguishedName == "xdp_dispatcher"

\* bpftool is there and lists the loaded XDP programs
ProgramsEnumerated == host.which_bpftool = "ok" /\ host.bpftool_prog_list.run = "ok"

\* C18: when check_bpf_programs enumerates the loaded XDP programs, its
\* "BPF Programs (XDP)" result is Pass when a program with the distinguished
\* name is among them, Warning when there are programs but none with that
\* name, and Info when there is none.
C18_DistinguishedProgramFlagged ==
    (pc = "bpf_programs_done" /\ ProgramsEnumerated) =>
        /\ ret.ok
        /\ \E i \in 1..Len(ret.value) : ret.value[i].name = "BPF Programs (XDP)"
        /\ \A i \in 1..Len(ret.value) :
              ret.value[i].name = "BPF Programs (XDP)" =>
                 ret.value[i].status =
                    IF DistinguishedName \in Range(host.bpftool_prog_list.programs) THEN "Pass"
                    ELSE IF host.bpftool_prog_list.programs # << >> THEN "Warning"
                    ELSE "Info"


(***************************************************************************)
(* Claims about the order of one run (Spec).                               *)
(***************************************************************************)
FullCheck == cli.command \in {"none", "check"}

FullProbes == <<"Kernel", "Capabilities", "System Resources", "Network Interfaces", "Runtime Status">>

\* the probes of the full check this command line selects
SelectedProbes ==
    IF cli.command = "check" /\ cli.skip_runtime THEN SubSeq(FullProbes, 1, 4) ELSE FullProbes

CompletedProbes == [i \in 1..Len(calls) |-> calls[i].name]

\* the probe that runs next in each position of the full check
FullPosition ==
    CASE pc = "full_kernel" -> 0
      [] pc = "full_capabilities" -> 1
      [] pc = "full_system" -> 2
      [] pc = "full_nic" -> 3
      [] pc = "full_runtime" -> 4
      [] OTHER -> -1

SomethingRendered == printed # << >> \/ json_out # << >>

\* C19: in a full check the probes that have completed are, in order, the
\* first of Kernel, Capabilities, System Resources, Network Interfaces and
\* (unless skip_runtime was given) Runtime Status; the sections of the Report
\* are those probes in that order; a probe starts only when all before it
\* have completed and their sections are added; and the Report is rendered
\* only when every selected probe has completed.
C19_FullCheckOrder ==
    FullCheck =>
        /\ Len(calls) <= Len(SelectedProbes)
        /\ CompletedProbes = SubSeq(SelectedProbes, 1, Len(calls))
        /\ report.order = CompletedProbes
        /\ \A i \in 1..Len(calls) : report.sections[calls[i].name] = calls[i].results
        /\ FullPosition >= 0 => Len(calls) = FullPosition
        /\ pc = "full_runtime" => ~(cli.command = "check" /\ cli.skip_runtime)
        /\ (pc = "full_render" \/ SomethingRendered) => CompletedProbes = SelectedProbes
        /\ (Exited /\ ~Fatal) => SomethingRendered

\* a full check with skip_runtime has rendered a Report of the four sections
C19_Witness ==
    /\ cli.command = "check" /\ cli.skip_runtime
    /\ Exited
    /\ SomethingRendered
    /\ report.order = <<"Kernel", "Capabilities", "System Resources", "Network Interfaces">>

\* C20: once a probe has returned a fatal error no further probe runs and no
\* section is added, the Report is rendered in neither format, and the
\* process ends with exit status 1.
C20_FatalErrorAborts ==
    /\ [](Fatal => /\ pc \in {"error", "exited"}
                   /\ printed = << >> /\ json_out = << >>
                   /\ exit_code \in {Running, 1}
                   /\ Exited => exit_code = 1)
    /\ [][Fatal => /\ UNCHANGED <<ret, calls, report, printed, json_out>>
                   /\ pc' = "exited" /\ exit_code' = 1]_vars

\* the third probe of a full check returned a fatal error: two sections,
\* nothing rendered, exit status 1
C20_Witness ==
    /\ FullCheck /\ Fatal /\ Exited
    /\ Len(calls) = 2
    /\ ~SomethingRendered
    /\ exit_code = 1


(***************************************************************************)
(* The host across a run.  Every probe reads files and directories, reads  *)
(* a resource limit, or runs zcat, pgrep, which or bpftool prog list/show, *)
(* none of which writes; the one request it issues on the control channel  *)
(* is the SIOCETHTOOL request of ring_parameters_ethtool.                   *)
(***************************************************************************)
\* the interface a request names
RequestedName(request) == c_str(request.ifr_name)

\* C21: no step of any run (full, kernel, single-interface, runtime, quick)
\* changes the host (its files, interface configuration, attached programs,
\* resource limits), and every request issued on the control channel carries
\* the get-ring-parameters command.
C21_HostNeverMutated ==
    /\ [][host' = host]_vars
    /\ [](\A i \in 1..Len(requests) : requests[i].ifru_data.cmd = ETHTOOL_GRINGPARAM)

\* a run has ended after the ring parameters of eth0 were asked for and the
\* driver answered
C21_Witness ==
    /\ Exited
    /\ \E i \in 1..Len(requests) :
          /\ RequestedName(requests[i]) = "eth0"
          /\ interface_exists(host, "eth0")
          /\ host.iface["eth0"].ring.supported


(***************************************************************************)
(* The structures handed to the request, as they are when ioctl is called. *)
(***************************************************************************)
\* the number of bytes of the name that fit before the terminator
BytesKept(name) == IF Len(name) < IF_NAMESIZE - 1 THEN Len(name) ELSE IF_NAMESIZE - 1

\* C25: when the request is issued, for a name of any length, the name field
\* of the ifreq holds the first min(length, IF_NAMESIZE - 1) bytes of the name
\* and zero bytes after them, its last byte being zero, and the record the
\* ifreq points to has the get-ring-parameters op-code in cmd and zero in each
\* of its eight other fields.
C25_RequestZeroedAndTerminated ==
    pc = "ring_ioctl" =>
        LET name == frame.interface
            field == frame.ifr.ifr_name
            record == frame.ifr.ifru_data
        IN  /\ DOMAIN field = 1..IF_NAMESIZE
            /\ \A i \in 1..BytesKept(name) : field[i] = SubSeq(name, i, i)
            /\ \A i \in (BytesKept(name) + 1)..IF_NAMESIZE : field[i] = NUL
            /\ field[IF_NAMESIZE] = NUL
            /\ record.cmd = ETHTOOL_GRINGPARAM
            /\ DOMAIN record = {"cmd", "rx_max_pending", "rx_mini_max_pending",
                                "rx_jumbo_max_pending", "tx_max_pending", "rx_pending",
                                "rx_mini_pending", "rx_jumbo_pending", "tx_pending"}
            /\ \A f \in DOMAIN record \ {"cmd"} : record[f] = 0

\* the request is about to be issued for a name longer than the name field
C25_Witness ==
    /\ pc = "ring_ioctl"
    /\ Len(frame.interface) > IF_NAMESIZE - 1
    /\ frame.ifr.ifr_name[IF_NAMESIZE - 1] = "f"


(***************************************************************************)
(* check_xdp_support on eth0, for every driver of DriverNames, with and    *)
(* without the xdp directory, and for the prog_id files a kernel can       *)
(* leave: an identifier in decimal with or without a newline, an empty     *)
(* file, a file that cannot be read, no file.                              *)
(***************************************************************************)
ProgIdFiles ==
    {File("ok", <<"0", "\n">>), File("ok", <<"0">>), File("ok", <<"4", "2", "\n">>),
     File("ok", <<"7">>), File("ok", <<"\n">>), File("ok", << >>),
     File("unreadable", << >>), File("missing", << >>)}

XdpHosts ==
    {[HostBaseline EXCEPT !.iface["eth0"].driver_link = driver,
                          !.iface["eth0"].uevent = File("ok", devtype),
                          !.iface["eth0"].xdp_dir = xdp_dir,
                          !.iface["eth0"].prog_id = prog_id] :
        driver \in DriverNames, devtype \in {"", "wlan"}, xdp_dir \in BOOLEAN,
        prog_id \in ProgIdFiles}

InitXdp ==
    /\ report = Report_new
    /\ calls = << >>
    /\ printed = << >>
    /\ json_out = << >>
    /\ pc = "xdp_support"
    /\ cli = Cli("nic", FALSE, "eth0", "human", FALSE)
    /\ host \in XdpHosts
    /\ ret = NoReturn
    /\ exit_code = Running
    /\ sockets = {}
    /\ frame = NoFrame
    /\ requests = << >>
    /\ queries = << >>

CheckXdpSupport ==
    /\ pc = "xdp_support"
    /\ ret' = check_xdp_support(host, cli.interface)
    /\ pc' = "xdp_support_done"
    /\ UNCHANGED <<report, calls, printed, json_out, cli, host,
                   sockets, frame, requests, queries, exit_code>>

NextXdp == CheckXdpSupport

SpecXdp == InitXdp /\ [][NextXdp]_vars

\* the identifier in prog_id, when the file can be read and holds a number
AttachedId(fs) ==
    IF fs.prog_id.state = "ok" THEN parse_u32(trim(fs.prog_id.content)) ELSE Err("unreadable")

\* a program is attached: the identifier can be read and is not zero
ProgramAttached(fs) == AttachedId(fs).ok /\ AttachedId(fs).value # 0

\* C22: check_xdp_support returns a result that is never Fail or Error.
\* Without the capability marker it is Pass, with the note that the marker
\* was not visible, when the driver is known good, and Warning otherwise.
\* With the marker it is Pass with the identifier when a program is attached
\* (the identifier is not zero), and Pass "XDP-ready (no program attached)"
\* otherwise, also when the identifier cannot be read.
C22_XdpSupportClassification ==
    pc = "xdp_support_done" =>
        /\ ret.ok
        /\ LET result == ret.value
               fs == host.iface[cli.interface]
           IN  /\ result.status \notin {"Fail", "Error"}
               /\ (~fs.xdp_dir /\ Capable(fs.driver_link)) =>
                     /\ result.status = "Pass"
                     /\ result.details = "Driver {} supports XDP but sysfs entries not visible"
                     /\ result.args = <<fs.driver_link>>
               /\ (~fs.xdp_dir /\ ~Capable(fs.driver_link)) => result.status = "Warning"
               /\ (fs.xdp_dir /\ ProgramAttached(fs)) =>
                     /\ result.status = "Pass"
                     /\ result.message = "XDP program attached (ID: {})"
                     /\ Len(result.args) = 1
                     /\ parse_u32(result.args[1]) = AttachedId(fs)
               /\ (fs.xdp_dir /\ ~ProgramAttached(fs)) =>
                     /\ result.status = "Pass"
                     /\ result.message = "XDP-ready (no program attached)"

\* the marker is there and the identifier cannot be read: XDP-ready
C22_Witness ==
    /\ pc = "xdp_support_done"
    /\ host.iface[cli.interface].xdp_dir
    /\ host.iface[cli.interface].prog_id.state = "unreadable"
    /\ ret.ok
    /\ ret.value.message = "XDP-ready (no program attached)"


(***************************************************************************)
(* check_kernel_config over the three candidate sources: each is missing,  *)
(* unreadable, or readable with every option built in or with none set;    *)
(* zcat cannot be spawned, exits non-zero, or succeeds.                    *)
(***************************************************************************)
ConfigFiles ==
    {File("missing", {}), File("unreadable", {}), File("ok", ConfigAllBuiltIn), File("ok", {})}

ConfigHosts ==
    {[HostBaseline EXCEPT !.boot_config_release = versioned,
                          !.proc_config_gz = compressed,
                          !.boot_config = plain,
                          !.zcat = zcat] :
        versioned \in ConfigFiles, compressed \in ConfigFiles, plain \in ConfigFiles,
        zcat \in CommandOutcomes}

InitConfig ==
    /\ report = Report_new
    /\ calls = << >>
    /\ printed = << >>
    /\ json_out = << >>
    /\ pc = "kernel_config"
    /\ cli = CliPlaceholder
    /\ host \in ConfigHosts
    /\ ret = NoReturn
    /\ exit_code = Running
    /\ sockets = {}
    /\ frame = NoFrame
    /\ requests = << >>
    /\ queries = << >>

KernelConfig ==
    /\ pc = "kernel_config"
    /\ ret' = check_kernel_config(host)
    /\ pc' = "kernel_config_done"
    /\ UNCHANGED <<report, calls, printed, json_out, cli, host,
                   sockets, frame, requests, queries, exit_code>>

NextConfig == KernelConfig

SpecConfig == InitConfig /\ [][NextConfig]_vars

\* the candidate sources, in the order stated
Candidates ==
    << [path |-> "/boot/config-{release}", file |-> host.boot_config_release,
        compressed |-> FALSE],
       [path |-> "/proc/config.gz", file |-> host.proc_config_gz, compressed |-> TRUE],
       [path |-> "/boot/config", file |-> host.boot_config, compressed |-> FALSE] >>

\* the candidate can be read and, when it is compressed, zcat decompresses it
YieldsContent(candidate) ==
    /\ candidate.file.state = "ok"
    /\ candidate.compressed => host.zcat = "ok"

Yielding == {i \in 1..Len(Candidates) : YieldsContent(Candidates[i])}

FirstYielding == CHOOSE i \in Yielding : \A j \in Yielding : i <= j

\* every result is the verdict on one option, read from the candidate
PerFlagResultsFrom(candidate) ==
    /\ Len(ret.value) = Len(REQUIRED_OPTIONS) + Len(OPTIONAL_OPTIONS)
    /\ \A i \in 1..Len(ret.value) :
          LET option == (REQUIRED_OPTIONS \o OPTIONAL_OPTIONS)[i]
              enabled == \E v \in {"y", "m"} : ConfigLine(option, v) \in candidate.file.content
          IN  /\ ret.value[i].name = option
              /\ ret.value[i].args = <<candidate.path>>
              /\ ret.value[i].status = "Pass" <=> enabled

\* C23: check_kernel_config uses the first of /boot/config-<release>,
\* /proc/config.gz, /boot/config that yields content, passing over a
\* candidate that is missing, unreadable or whose decompression fails; when
\* none yields content it returns one result, a Warning, with no per-flag
\* result and no Fail.
C23_FirstYieldingCandidate ==
    pc = "kernel_config_done" =>
        /\ ret.ok
        /\ Yielding # {} => PerFlagResultsFrom(Candidates[FirstYielding])
        /\ Yielding = {} =>
              /\ Len(ret.value) = 1
              /\ ret.value[1].name = "Kernel Config"
              /\ ret.value[1].status = "Warning"


(***************************************************************************)
(* The summary of print_human, over the reports of SpecReport.             *)
(***************************************************************************)
Banners == {i \in 1..Len(printed) : printed[i].kind = "banner"}

\* the banner the stored results call for
ExpectedBanner ==
    IF StoredWith({"Fail", "Error"}) # {} THEN "FAILED"
    ELSE IF StoredWith({"Warning"}) # {} THEN "PASSED with warnings"
    ELSE "PASSED"

BannerFollowsVerdict ==
    /\ Cardinality(Banners) = 1
    /\ \A i \in Banners :
          /\ printed[i].text = ExpectedBanner
          /\ printed[i].text = "FAILED" <=> ~is_compatible(report)
          /\ \A j \in 1..(i - 1) : printed[j].kind \in {"section", "result", "details"}

RuntimeHosts ==
    {[HostBaseline EXCEPT
        !.sys_class_net = net,
        !.iface["eth0"].prog_id = prog_id,
        !.iface["eth0"].xdp_mode = mode,
        !.proc_net_xsk = xsk,
        !.proc_modules = File("ok", modules),
        !.which_bpftool = which,
        !.bpftool_prog_list = list,
        !.sys_fs_bpf = pinned,
        !.proc_mounts = File("ok", mounts)] :
        net \in {File("ok", <<"lo", "eth0">>), File("unreadable", << >>)},
        prog_id \in {File("ok", <<"0", "\n">>), File("ok", <<"4", "2", "\n">>),
                     File("unreadable", << >>), File("missing", << >>)},
        mode \in {File("missing", "")}
                 \cup {File("ok", m) : m \in {"native", "generic", "offload", "multi"}},
        xsk \in {File("missing", 0), File("ok", 1), File("ok", 3)},
        modules \in {{"xsk_diag"}, {}},
        which \in {"ok", "exit_nonzero"},
        list \in {[run |-> "ok", lines |-> 0, programs |-> << >>],
                  [run |-> "ok", lines |-> 2, programs |-> <<"xdp_prog">>],
                  [run |-> "spawn_error", lines |-> 0, programs |-> << >>]},
        pinned \in {File("ok", << >>), File("ok", <<"xdp_prog", "other">>),
                    File("missing", << >>)},
        mounts \in {{"bpf", "proc"}, {"proc"}}}

InitRuntime ==
    /\ report = Report_new
    /\ calls = << >>
    /\ printed = << >>
    /\ json_out = << >>
    /\ pc = "runtime_runtime"
    /\ \E interface \in {NoInterface, "eth0", "wlan9"} :
          cli = Cli("runtime", FALSE, interface, "human", FALSE)
    /\ host \in RuntimeHosts
    /\ ret = NoReturn
    /\ exit_code = Running
    /\ sockets = {}
    /\ frame = NoFrame
    /\ requests = << >>
    /\ queries = << >>

NextRuntime == RuntimeRuntime \/ RuntimeRender \/ RuntimeExit \/ MainError

SpecRuntime == InitRuntime /\ [][NextRuntime]_vars

\* check_xdp_runtime has returned its results
RuntimeReturned == pc # "runtime_runtime" /\ ret.ok

\* C26: every result check_xdp_runtime returns, for an interface or for
\* none, on any host, is Pass, Warning or Info, so a Report that holds the
\* "Runtime Status" section and no other is compatible.
C26_RuntimeNeverFails ==
    /\ RuntimeReturned =>
          \A i \in 1..Len(ret.value) : ret.value[i].status \in {"Pass", "Warning", "Info"}
    /\ DOMAIN report.sections = {"Runtime Status"} =>
          /\ report.sections["Runtime Status"] = ret.value
          /\ is_compatible(report)

\* the runtime check of eth0 in the fallback mode: a Warning is stored and
\* the report is compatible
C26_Witness ==
    /\ RuntimeReturned
    /\ cli.interface = "eth0"
    /\ DOMAIN report.sections = {"Runtime Status"}
    /\ \E i \in 1..Len(ret.value) :
          ret.value[i].name = "XDP Mode" /\ ret.value[i].status = "Warning"
    /\ is_compatible(report)


(***************************************************************************)
(* The single-interface command on a name the device listing lacks.        *)
(***************************************************************************)
\* the run is `nic <interface>` and /sys/class/net has no entry of that name
NicOfUnlisted ==
    /\ cli.command = "nic"
    /\ \A i \in 1..Len(host.sys_class_net.content) :
          host.sys_class_net.content[i] # cli.interface

\* C27: check_interface on a name with no entry in the device listing
\* returns, with no fatal error, one result, whose status is Error, and makes
\* no driver, XDP, queue or ring parameter query; the nic command then
\* renders the report and exits with status 1.
C27_UnlistedInterfaceIsError ==
    (NicOfUnlisted /\ pc \notin {"main", "nic_interface"}) =>
        /\ ret.ok
        /\ pc # "error"
        /\ Len(ret.value) = 1
        /\ ret.value[1].status = "Error"
        /\ ret.value[1].subject = cli.interface
        /\ queries = << >>
        /\ requests = << >>
        /\ report.sections = ("Interface: {}" :> ret.value)
        /\ Exited => (RenderedInFormat /\ exit_code = 1)

\* `nic wlan9` has ended: the report was rendered and the status is 1
C27_Witness ==
    /\ NicOfUnlisted
    /\ cli.interface = "wlan9"
    /\ Exited
    /\ RenderedInFormat
    /\ exit_code = 1


(***************************************************************************)
(* The two fields of a Report against each other.                          *)
(***************************************************************************)
OrderNames == {report.order[i] : i \in 1..Len(report.order)}

\* the section headings of what was printed, in the order printed
RECURSIVE HeadingsFrom(_)
HeadingsFrom(i) ==
    IF i > Len(printed) THEN << >>
    ELSE (IF printed[i].kind = "section" THEN <<printed[i].section>> ELSE << >>)
         \o HeadingsFrom(i + 1)

\* C28: a new Report has no section and no recorded name; after any sequence
\* of add_section calls the names in the order list are the keys of the
\* section mapping, and the order list is as long as the number of calls made;
\* so print_human prints a heading for every recorded name, in order, and
\* with that one for every stored section.
C28_OrderMatchesSections ==
    /\ calls = << >> => (report.order = << >> /\ DOMAIN report.sections = {})
    /\ OrderNames = DOMAIN report.sections
    /\ Len(report.order) = Len(calls)
    /\ printed # << >> =>
          /\ HeadingsFrom(1) = report.order
          /\ \A n \in DOMAIN report.sections :
                \E i \in 1..Len(printed) : printed[i].kind = "section" /\ printed[i].section = n

\* three calls, two of them with the same name, and the report printed: two
\* keys, three recorded names, three headings
C28_Witness ==
    /\ Len(calls) = 3
    /\ Cardinality(DOMAIN report.sections) = 2
    /\ Len(report.order) = 3
    /\ printed # << >>
    /\ Len(HeadingsFrom(1)) = 3
====
